---- MODULE Spec2Model ----
(***************************************************************************)
(* PersonaForge plan-to-execution pipeline: SecurityService (validation,   *)
(* rate limiter, kill switch, audit log), SecurityConsentService,          *)
(* SecureTaskExecutor.executePlan, executor-main executePlan and the       *)
(* agent scheduler (createExecutionPlan, groupIntoBatches,                 *)
(* executeWithAgents).                                                     *)
(*                                                                         *)
(* Strings are represented by a small alphabet of representative           *)
(* literals; the predicates the code evaluates on them (regular            *)
(* expressions, includes, length, parseInt) are tabulated below.           *)
(***************************************************************************)
EXTENDS Integers, Sequences, FiniteSets, TLC

(***************************************************************************)
(* Bounds of the model.                                                    *)
(***************************************************************************)
\* number of executePlan calls (IPC "task:execute" invocations) modelled
NumCalls == 2
\* longest step list of a plan in the pipeline specification
MaxPlanLen == 2
\* longest step list in the scheduler specification
MaxSchedLen == 3
\* longest step list in the validation specification
MaxValLen == 2
\* configured ceiling of the rate limiter (SecurityConfig.maxActionsPerMinute)
MaxActions == 2
\* the clock advances in ticks of TickMs up to MaxNow
\* longest task list handed to executeWithAgents directly
MaxTasks == 3
\* largest limit passed to getAuditLogs
MaxLimit == 3
TickMs == 30000
MaxNow == 90000

(***************************************************************************)
(* Program constants.                                                      *)
(***************************************************************************)
\* security.ts:415  const oneMinuteAgo = now - 60000
WindowMs == 60000
\* security.ts:340  text.length > 1000
MaxMessageLen == 1000
\* security.ts:373  step.text.length > 50
LongTypeLen == 50
\* executor-safety.ts:92  text.length > 500
VeryLongTypeLen == 500
\* executor-safety.ts:224  ms > 30000
MaxWaitMs == 30000

Procs == 1..NumCalls

RiskLevels == {"low", "medium", "high"}

\* security.ts:23 Operation
Operations ==
  {"OpenApp", "Navigate", "Type", "Click", "Shortcut", "SystemSetting",
   "Message", "Confirm", "Wait"}

\* security.ts:84
SAFE_OPERATIONS == {"Confirm", "Wait"}

\* security.ts:87
SAFE_APPS == {"ms-settings:", "notepad", "calc", "mspaint", "explorer"}

(***************************************************************************)
(* String tables: what the code's string predicates yield on the literals  *)
(* of the model.                                                           *)
(***************************************************************************)
\* String(text).length
TextLength(t) ==
  CASE t = "" -> 0
    [] t = "hello" -> 5
    [] t = "rm -rf /" -> 8
    [] t = "long51" -> 51
    [] t = "long501" -> 501
    [] t = "long1001" -> 1001
    [] OTHER -> 5

\* DANGEROUS_PATTERNS.some(p => p.test(t)), security.ts:96-105
MatchesDangerousPattern(t) == t \in {"rm -rf /", "shutdown now"}

\* appName.includes(';') || includes('|') || includes('&') || includes('`')
HasInjectionChar(s) == s \in {"calc;evil", "30;evil"}

\* target.includes(d) for some d of DANGEROUS_SETTINGS, security.ts:108-115
IsDangerousSetting(t) == t \in {"system.shutdown"}

\* the key list of a keys literal ("none" is an absent keys field)
KeyList(k) ==
  CASE k = "ctrl+c" -> <<"ctrl", "c">>
    [] k = "alt+f4" -> <<"alt", "f4">>
    [] k = "Alt+F4" -> <<"Alt", "F4">>
    [] k = "ctrl+shift+esc" -> <<"ctrl", "shift", "esc">>
    [] k = "ctrl+delete" -> <<"ctrl", "delete">>
    [] OTHER -> <<>>

\* k.toLowerCase()
Lower(s) == CASE s = "Alt" -> "alt" [] s = "F4" -> "f4" [] OTHER -> s

KeysInclude(k, name) == \E i \in 1..Len(KeyList(k)) : KeyList(k)[i] = name

LowerKeysInclude(k, name) ==
  \E i \in 1..Len(KeyList(k)) : Lower(KeyList(k)[i]) = name

\* parseInt(step.value); -1 stands for NaN
ParseInt(v) ==
  CASE v = "30" -> 30
    [] v = "500" -> 500
    [] v = "99999" -> 99999
    [] v = "30;evil" -> 30
    [] OTHER -> -1

(***************************************************************************)
(* Plans and steps (security.ts:25-38).  An absent string field is "".     *)
(***************************************************************************)
Step(op, app, target, text, keys, value) ==
  [op |-> op, app |-> app, target |-> target, text |-> text, keys |-> keys,
   value |-> value]

OpenAppStep(app) == Step("OpenApp", app, "", "", "none", "")
SystemSettingStep(target, value) == Step("SystemSetting", "", target, "", "none", value)
TypeStep(text) == Step("Type", "", "", text, "none", "")
ShortcutStep(keys) == Step("Shortcut", "", "", "", keys, "")
MessageStep(target, text) == Step("Message", "", target, text, "none", "")
WaitStep(value) == Step("Wait", "", "", "", "none", value)
BareStep(op) == Step(op, "", "", "", "none", "")

\* hasSteps = FALSE is a plan whose steps field is missing; isNull = TRUE is
\* the value null passed as the plan ("task:execute" takes plan: any)
Plan(task, risk, steps) ==
  [task |-> task, risk |-> risk, steps |-> steps, hasSteps |-> TRUE,
   isNull |-> FALSE]

NullPlan ==
  [task |-> "", risk |-> "low", steps |-> <<>>, hasSteps |-> FALSE,
   isNull |-> TRUE]

\* SecurityResult, security.ts:64-69 (an absent boolean is FALSE, an absent
\* reason is "")
Result(allowed, reason, requiresApproval, requiresPin) ==
  [allowed |-> allowed, reason |-> reason,
   requiresApproval |-> requiresApproval, requiresPin |-> requiresPin]

Allowed(requiresApproval) == Result(TRUE, "", requiresApproval, FALSE)
Rejected(reason) == Result(FALSE, reason, FALSE, FALSE)

(***************************************************************************)
(* State.                                                                  *)
(***************************************************************************)
VARIABLES
  \* SecurityService (security.ts:117-124)
  config,            \* SecurityConfig
  actionHistory,     \* sequence of [timestamp, action]
  killSwitchActive,
  lastAuditHash,     \* <<>> for null, <<h>> for the hash h
  whitelist,
  blacklist,
  auditLog,          \* the lines of the audit file, oldest first
  storeFaulty,       \* TRUE iff fs.appendFileSync may throw
  now,               \* Date.now()
  \* one executePlan call per element of Procs
  pc,                \* "off", "idle", "consent", "exec", "done"
  plan,
  userInput,
  window,            \* TRUE iff a BrowserWindow was passed
  validation,        \* the SecurityResult of step 1
  consent,           \* ConsentResult.approved
  prompt,            \* dialog shown: "none", "approval", "pin"
  response,          \* how the dialog settled: "none", "approve", "deny", "error"
  batchIndex,        \* index (from 1) of the wave in flight
  results,           \* executeWithAgents' results array: "none", "ok", "fail"
  execResult,        \* executor-main's ExecutionResult
  result,            \* SecureTaskExecutor's ExecutionResult
  recorded,          \* number of recordAction calls made by the call
  recordedAt,        \* Date.now() at the call's recordAction, -1 before it
  logged,            \* positions in the file of the lines the call wrote
  raised,            \* TRUE iff the call's promise was rejected (it threw)
  \* history of the capability provider: <<"dispatch"|"report", p, i>>
  events,
  \* what each executeFn promise settled to, in completion order:
  \* <<p, i, "ok"|"fail">>
  settled,
  \* one direct call of executeWithAgents (executor-safety.ts:317-374)
  taskPc,            \* "off", "called", "running", "returned"
  taskList,          \* its tasks argument
  taskBatches,       \* const batches
  taskWave,          \* number of waves dispatched so far
  \* one getAuditLogs request: its limit (-1 before it) and what it returned
  auditReply

vars ==
  <<config, actionHistory, killSwitchActive, lastAuditHash, whitelist,
    blacklist, auditLog, storeFaulty, now, pc, plan, userInput, window,
    validation, consent, prompt, response, batchIndex, results, execResult,
    result, recorded, recordedAt, logged, raised, events, settled, taskPc,
    taskList, taskBatches, taskWave, auditReply>>

\* the state of the direct call of executeWithAgents
taskVars == <<taskPc, taskList, taskBatches, taskWave>>

\* the state of the executePlan calls
callVars ==
  <<pc, plan, userInput, window, validation, consent, prompt, response,
    batchIndex, results, execResult, result, recorded, recordedAt, logged,
    raised, events, settled, taskVars, auditReply>>

(***************************************************************************)
(* SecurityService: validation (security.ts:143-408).                      *)
(***************************************************************************)
\* security.ts:72-81, with the limiter's ceiling at the model's bound
DEFAULT_CONFIG ==
  [requireApprovalForMedium |-> TRUE,
   requireApprovalForHigh |-> TRUE,
   requirePinForHigh |-> FALSE,
   maxActionsPerMinute |-> MaxActions,
   enableWhitelist |-> TRUE,
   enableBlacklist |-> TRUE,
   enableAuditLog |-> TRUE,
   killSwitchEnabled |-> TRUE]

validateOpenApp(step) ==
  IF step.app = "" THEN Rejected("OpenApp requires an app name")
  ELSE IF HasInjectionChar(step.app)
    THEN Rejected("Invalid characters in app name (potential command injection)")
  ELSE IF step.app \in SAFE_APPS THEN Allowed(FALSE)
  ELSE Allowed(TRUE)

validateSystemSetting(step) ==
  IF step.target = "" THEN Rejected("SystemSetting requires a target")
  ELSE IF IsDangerousSetting(step.target)
    THEN Rejected("Dangerous system setting blocked")
  ELSE IF step.value # "" /\ HasInjectionChar(step.value)
    THEN Rejected("Invalid characters in setting value (potential command injection)")
  ELSE Allowed(TRUE)

validateMessage(step) ==
  IF step.target = "" \/ step.text = ""
    THEN Rejected("Message requires both target and text")
  ELSE IF TextLength(step.text) > MaxMessageLen
    THEN Rejected("Message text too long (max 1000 characters)")
  \* Messages are always high risk - require approval
  ELSE Allowed(TRUE)

validateType(step) ==
  IF step.text = "" THEN Rejected("Type operation requires text")
  ELSE IF MatchesDangerousPattern(step.text)
    THEN Rejected("Dangerous command pattern detected in typed text")
  ELSE Allowed(TextLength(step.text) > LongTypeLen)

validateShortcut(step) ==
  IF step.keys = "none" THEN Rejected("Shortcut requires an array of keys")
  ELSE IF LowerKeysInclude(step.keys, "alt") /\ LowerKeysInclude(step.keys, "f4")
    THEN Rejected("Alt+F4 shortcut is blocked for security")
  ELSE IF /\ LowerKeysInclude(step.keys, "ctrl")
          /\ LowerKeysInclude(step.keys, "shift")
          /\ LowerKeysInclude(step.keys, "esc")
    THEN Rejected("Task Manager shortcut is blocked for security")
  ELSE Allowed(TRUE)

\* variant: an operation outside the enumeration is let through
MutValidateStepAllowsUnknown(step, input) ==
  IF MatchesDangerousPattern(input)
    THEN Rejected("Dangerous command pattern detected")
  ELSE IF step.op = "" THEN Rejected("Invalid operation type")
  ELSE IF config.enableBlacklist /\ step.op \in blacklist
    THEN Rejected("Operation is blacklisted")
  ELSE IF /\ config.enableWhitelist
          /\ step.op \notin SAFE_OPERATIONS
          /\ whitelist # {}
          /\ step.op \notin whitelist
    THEN Rejected("Operation is not whitelisted")
  ELSE CASE step.op = "OpenApp" -> validateOpenApp(step)
         [] step.op = "SystemSetting" -> validateSystemSetting(step)
         [] step.op = "Message" -> validateMessage(step)
         [] step.op = "Type" -> validateType(step)
         [] step.op = "Shortcut" -> validateShortcut(step)
         [] OTHER -> Allowed(FALSE)

\* SecurityService.validateStep, security.ts:191-257
validateStep(step, input) ==
  IF MatchesDangerousPattern(input)
    THEN Rejected("Dangerous command pattern detected")
  ELSE IF step.op = "" THEN Rejected("Invalid operation type")
  ELSE IF config.enableBlacklist /\ step.op \in blacklist
    THEN Rejected("Operation is blacklisted")
  ELSE IF /\ config.enableWhitelist
          /\ step.op \notin SAFE_OPERATIONS
          /\ whitelist # {}
          /\ step.op \notin whitelist
    THEN Rejected("Operation is not whitelisted")
  ELSE CASE step.op = "OpenApp" -> validateOpenApp(step)
         [] step.op = "SystemSetting" -> validateSystemSetting(step)
         [] step.op = "Message" -> validateMessage(step)
         [] step.op = "Type" -> validateType(step)
         [] step.op = "Shortcut" -> validateShortcut(step)
         [] step.op \in {"Navigate", "Click", "Confirm", "Wait"} -> Allowed(FALSE)
         [] OTHER -> Rejected("Unknown operation")

\* variant: the limiter never forgets an action
MutRecentHistoryKeepsAll(history, t) == history

\* the filter of checkRateLimit, security.ts:418-420
RecentHistory(history, t) ==
  SelectSeq(history, LAMBDA entry : entry.timestamp > t - WindowMs)

\* SecurityService.checkRateLimit, security.ts:413-431 (its result)
checkRateLimit ==
  IF Len(RecentHistory(actionHistory, now)) >= config.maxActionsPerMinute
    THEN Rejected("Rate limit exceeded")
  ELSE Allowed(FALSE)

\* the result of the first step that is not allowed, security.ts:167-172
RECURSIVE FirstRejection(_, _)
FirstRejection(steps, input) ==
  IF steps = <<>> THEN Allowed(FALSE)
  ELSE IF ~validateStep(Head(steps), input).allowed
    THEN validateStep(Head(steps), input)
  ELSE FirstRejection(Tail(steps), input)

\* security.ts:175-177
RequiresApproval(p) ==
  \/ p.risk = "medium" /\ config.requireApprovalForMedium
  \/ p.risk = "high" /\ config.requireApprovalForHigh

\* security.ts:179
RequiresPin(p) == p.risk = "high" /\ config.requirePinForHigh

\* security.ts:153  !plan || !plan.task || !plan.steps || !Array.isArray(plan.steps)
InvalidStructure(p) == p.isNull \/ p.task = "" \/ ~p.hasSteps

\* variant: the kill switch is consulted after the structure and rate-limit
\* checks instead of first
MutValidateKillSwitchLate(p, input) ==
  IF InvalidStructure(p) THEN Rejected("Invalid task plan structure")
  ELSE IF ~checkRateLimit.allowed THEN checkRateLimit
  ELSE IF killSwitchActive
    THEN Rejected("Kill switch is active. All actions are blocked.")
  ELSE IF ~FirstRejection(p.steps, input).allowed
    THEN FirstRejection(p.steps, input)
  ELSE Result(TRUE, "", RequiresApproval(p), RequiresPin(p))

\* SecurityService.validateTaskPlan, security.ts:143-186 (its result)
validateTaskPlan(p, input) ==
  IF killSwitchActive
    THEN Rejected("Kill switch is active. All actions are blocked.")
  ELSE IF InvalidStructure(p) THEN Rejected("Invalid task plan structure")
  ELSE IF ~checkRateLimit.allowed THEN checkRateLimit
  ELSE IF ~FirstRejection(p.steps, input).allowed
    THEN FirstRejection(p.steps, input)
  ELSE Result(TRUE, "", RequiresApproval(p), RequiresPin(p))

\* actionHistory after validateTaskPlan: checkRateLimit drops the old entries
\* when it is reached, security.ts:145-164 and 418-420
HistoryAfterValidate(p) ==
  IF killSwitchActive \/ InvalidStructure(p) THEN actionHistory
  ELSE RecentHistory(actionHistory, now)

(***************************************************************************)
(* executor-safety.ts: the executor's own safety layer.                    *)
(***************************************************************************)
\* checkStepSafety, executor-safety.ts:58-139 (the risk it returns)
checkStepSafety(step) ==
  CASE step.op = "OpenApp" ->
         IF step.app \in {"regedit"} THEN "high"
         ELSE IF step.app \in {"cmd", "taskmgr"} THEN "medium"
         ELSE "low"
    [] step.op = "SystemSetting" -> "medium"
    [] step.op = "Type" ->
         IF TextLength(step.text) > VeryLongTypeLen THEN "medium" ELSE "low"
    [] step.op = "Shortcut" ->
         IF KeysInclude(step.keys, "Alt") /\ KeysInclude(step.keys, "F4")
           THEN "low"
         ELSE IF LowerKeysInclude(step.keys, "delete") \/ LowerKeysInclude(step.keys, "del")
           THEN "medium"
         ELSE "low"
    [] step.op = "Message" -> "high"
    [] step.op \in {"Navigate", "Click"} -> "medium"
    [] step.op \in {"Wait", "Confirm"} -> "low"
    [] OTHER -> "high"

\* variant: a step of high risk raises highestRisk and leaves
\* requiresConfirmation as it was
RECURSIVE MutSafetyLoopNoConfirmation(_, _, _)
MutSafetyLoopNoConfirmation(steps, highestRisk, requiresConfirmation) ==
  IF steps = <<>> THEN <<highestRisk, requiresConfirmation>>
  ELSE IF checkStepSafety(Head(steps)) = "high"
    THEN MutSafetyLoopNoConfirmation(Tail(steps), "high", requiresConfirmation)
  ELSE IF checkStepSafety(Head(steps)) = "medium" /\ highestRisk = "low"
    THEN MutSafetyLoopNoConfirmation(Tail(steps), "medium", requiresConfirmation)
  ELSE MutSafetyLoopNoConfirmation(Tail(steps), highestRisk, requiresConfirmation)

\* the loop of checkTaskSafety, executor-safety.ts:28-39: <<highestRisk,
\* requiresConfirmation>> after the steps
RECURSIVE SafetyLoop(_, _, _)
SafetyLoop(steps, highestRisk, requiresConfirmation) ==
  IF steps = <<>> THEN <<highestRisk, requiresConfirmation>>
  ELSE IF checkStepSafety(Head(steps)) = "high"
    THEN SafetyLoop(Tail(steps), "high", TRUE)
  ELSE IF checkStepSafety(Head(steps)) = "medium" /\ highestRisk = "low"
    THEN SafetyLoop(Tail(steps), "medium", requiresConfirmation)
  ELSE SafetyLoop(Tail(steps), highestRisk, requiresConfirmation)

\* checkTaskSafety, executor-safety.ts:22-53
checkTaskSafety(p) ==
  LET after == SafetyLoop(p.steps, "low", FALSE)
      highestRisk == IF p.risk = "high" THEN "high" ELSE after[1]
      requiresConfirmation == IF p.risk = "high" THEN TRUE ELSE after[2]
  IN [safe |-> highestRisk # "high" \/ requiresConfirmation,
      risk |-> highestRisk,
      requiresConfirmation |-> requiresConfirmation]

\* validateStep of executor-safety.ts:185-232: "" when valid, else the error
executorValidateStep(step) ==
  CASE step.op = "OpenApp" ->
         IF step.app = "" THEN "OpenApp requires 'app' parameter" ELSE ""
    [] step.op = "SystemSetting" ->
         IF step.target = "" \/ step.value = ""
           THEN "SystemSetting requires 'target' and 'value' parameters"
         ELSE IF step.target \in {"brightness"}
           THEN "SystemSetting target must be in format 'category.setting'"
         ELSE ""
    [] step.op = "Type" ->
         IF step.text = "" THEN "Type requires 'text' parameter" ELSE ""
    [] step.op = "Shortcut" ->
         IF step.keys = "none" \/ Len(KeyList(step.keys)) = 0
           THEN "Shortcut requires 'keys' array parameter"
         ELSE ""
    [] step.op = "Message" ->
         IF step.target = "" \/ step.text = ""
           THEN "Message requires 'target' and 'text' parameters"
         ELSE ""
    [] step.op = "Wait" ->
         IF /\ step.value # ""
            /\ (ParseInt(step.value) < 0 \/ ParseInt(step.value) > MaxWaitMs)
           THEN "Wait value must be between 0 and 30000ms"
         ELSE ""
    [] OTHER -> ""

\* variant: only the first step is validated
MutFirstInvalidHeadOnly(steps) ==
  IF steps = <<>> THEN "" ELSE executorValidateStep(Head(steps))

\* the first error of the loop of executor-main.ts:39-42, "" when every step
\* is valid
RECURSIVE FirstInvalid(_)
FirstInvalid(steps) ==
  IF steps = <<>> THEN ""
  ELSE IF executorValidateStep(Head(steps)) # ""
    THEN executorValidateStep(Head(steps))
  ELSE FirstInvalid(Tail(steps))

(***************************************************************************)
(* The agent scheduler (executor-safety.ts:242-414).  Steps are numbered   *)
(* from 1 (the source numbers them from 0).                                *)
(***************************************************************************)
\* variant: a Wait step may share its wave with the steps after it
MutCanRunInParallelWait(steps, i) ==
  CASE steps[i].op = "OpenApp" -> i = 1 \/ steps[i - 1].op # "Wait"
    [] steps[i].op \in {"SystemSetting", "Wait"} -> TRUE
    [] OTHER -> FALSE

\* the switch of createExecutionPlan, executor-safety.ts:269-301
CanRunInParallel(steps, i) ==
  CASE steps[i].op = "OpenApp" -> i = 1 \/ steps[i - 1].op # "Wait"
    [] steps[i].op = "SystemSetting" -> TRUE
    [] OTHER -> FALSE

\* variant: a Message step depends on the step after it instead of the step
\* before it
MutDependenciesForward(steps, i) ==
  CASE steps[i].op \in {"OpenApp", "SystemSetting"} -> {}
    [] steps[i].op = "Message" -> IF i < Len(steps) THEN {i + 1} ELSE {}
    [] OTHER -> IF i > 1 THEN {i - 1} ELSE {}

\* the dependencies createExecutionPlan gives task i, executor-safety.ts:269-306
Dependencies(steps, i) ==
  CASE steps[i].op \in {"OpenApp", "SystemSetting"} -> {}
    [] OTHER -> IF i > 1 THEN {i - 1} ELSE {}

\* createExecutionPlan, executor-safety.ts:260-312
createExecutionPlan(steps) ==
  [i \in 1..Len(steps) |->
     [index |-> i,
      op |-> steps[i].op,
      canRunInParallel |-> CanRunInParallel(steps, i),
      dependencies |-> Dependencies(steps, i)]]

\* variant: the wave is closed after the first task whatever its
\* canRunInParallel flag
RECURSIVE MutFillBatchOneTask(_, _, _, _)
MutFillBatchOneTask(tasks, k, currentBatch, completed) ==
  IF k > Len(tasks) THEN <<currentBatch, completed>>
  ELSE IF tasks[k].index \in completed
    THEN MutFillBatchOneTask(tasks, k + 1, currentBatch, completed)
  ELSE IF tasks[k].dependencies \subseteq completed
    THEN <<Append(currentBatch, tasks[k].index), completed \cup {tasks[k].index}>>
  ELSE MutFillBatchOneTask(tasks, k + 1, currentBatch, completed)

\* the for loop of groupIntoBatches, executor-safety.ts:386-403, from task k:
\* <<currentBatch, completed>>
RECURSIVE FillBatch(_, _, _, _)
FillBatch(tasks, k, currentBatch, completed) ==
  IF k > Len(tasks) THEN <<currentBatch, completed>>
  ELSE IF tasks[k].index \in completed
    THEN FillBatch(tasks, k + 1, currentBatch, completed)
  ELSE IF tasks[k].dependencies \subseteq completed
    THEN IF ~tasks[k].canRunInParallel
           THEN <<Append(currentBatch, tasks[k].index),
                  completed \cup {tasks[k].index}>>
         ELSE FillBatch(tasks, k + 1, Append(currentBatch, tasks[k].index),
                        completed \cup {tasks[k].index})
  ELSE FillBatch(tasks, k + 1, currentBatch, completed)

\* variant: when no task is ready the tasks left over form a last wave
RECURSIVE MutBatchLoopFlushes(_, _, _)
MutBatchLoopFlushes(tasks, batches, completed) ==
  IF Cardinality(completed) >= Len(tasks) THEN batches
  ELSE LET filled == FillBatch(tasks, 1, <<>>, completed)
           rest == SelectSeq([k \in 1..Len(tasks) |-> tasks[k].index],
                             LAMBDA x : x \notin completed)
       IN IF Len(filled[1]) > 0
            THEN MutBatchLoopFlushes(tasks, Append(batches, filled[1]), filled[2])
          ELSE Append(batches, rest)

\* the while loop of groupIntoBatches, executor-safety.ts:383-411
RECURSIVE BatchLoop(_, _, _)
BatchLoop(tasks, batches, completed) ==
  IF Cardinality(completed) >= Len(tasks) THEN batches
  ELSE LET filled == FillBatch(tasks, 1, <<>>, completed)
       IN IF Len(filled[1]) > 0
            THEN BatchLoop(tasks, Append(batches, filled[1]), filled[2])
          ELSE batches

\* groupIntoBatches, executor-safety.ts:379-414: the waves, each a sequence
\* of step indices
groupIntoBatches(tasks) == BatchLoop(tasks, <<>>, {})

\* the waves of a step list, executor-main.ts:45 and executor-safety.ts:327
Batches(steps) == groupIntoBatches(createExecutionPlan(steps))

(***************************************************************************)
(* The capability provider: executeStep, executor-main.ts:98-133.          *)
(***************************************************************************)
\* what a step's promise can settle to: "ok" (resolved) or "fail" (rejected)
Outcomes(step) ==
  CASE step.op \in {"OpenApp", "SystemSetting", "Type", "Shortcut", "Message"} ->
         {"ok", "fail"}
    [] step.op \in {"Wait", "Confirm", "Navigate", "Click"} -> {"ok"}
    [] OTHER -> {"fail"}

\* variant: executeFn is invoked a second time for every task of the wave
RECURSIVE MutDispatchEventsTwice(_, _)
MutDispatchEventsTwice(p, batch) ==
  IF batch = <<>> THEN <<>>
  ELSE <<(<<"dispatch", p, Head(batch)>>), (<<"dispatch", p, Head(batch)>>)>>
         \o MutDispatchEventsTwice(p, Tail(batch))

\* batch.map(async task => ... executeFn(task.step)), executor-safety.ts:339-343:
\* the steps of a wave are invoked one after the other in the same turn
RECURSIVE DispatchEvents(_, _)
DispatchEvents(p, batch) ==
  IF batch = <<>> THEN <<>>
  ELSE <<(<<"dispatch", p, Head(batch)>>)>> \o DispatchEvents(p, Tail(batch))

BatchSet(batch) == {batch[k] : k \in 1..Len(batch)}

(***************************************************************************)
(* Results.                                                                *)
(***************************************************************************)
\* ExecutionResult of executor-main.ts:14-21
MainResult(success, completedSteps, totalSteps, error) ==
  [success |-> success, completedSteps |-> completedSteps,
   totalSteps |-> totalSteps, error |-> error]

\* ExecutionResult of task-executor.ts:12-16
TaskResult(success, error, executedSteps) ==
  [success |-> success, error |-> error, executedSteps |-> executedSteps]

NoMainResult == MainResult(FALSE, 0, 0, "")
NoTaskResult == TaskResult(FALSE, "", 0)
NoValidation == Rejected("")

\* variant: completedSteps counts every settled step, failed ones too
MutBuildResultCountsSettled(steps, res) ==
  LET completedSteps == Cardinality({i \in 1..Len(steps) : res[i] # "none"})
  IN MainResult(completedSteps = Len(steps), completedSteps, Len(steps), "")

\* executor-main.ts:57-80: the result built from executeWithAgents' array; a
\* slot that was never filled makes r.success throw, executor-main.ts:82-91
BuildResult(steps, res) ==
  IF \E i \in 1..Len(steps) : res[i] = "none"
    THEN MainResult(FALSE, 0, Len(steps),
                    "Cannot read properties of undefined")
  ELSE LET completedSteps == Cardinality({i \in 1..Len(steps) : res[i] = "ok"})
       IN MainResult(completedSteps = Len(steps), completedSteps, Len(steps), "")

(***************************************************************************)
(* SecurityService: audit log (security.ts:446-481).                       *)
(***************************************************************************)
\* generateHash, security.ts:478-481: SHA-256 of {plan, userInput, timestamp},
\* kept as the triple it digests
generateHash(p, input) == <<p, input, now>>

\* the entry logAction builds after the hash `prev`, security.ts:455-466
AuditEntry(prev, input, p, approved, executed, error) ==
  [timestamp |-> now, action |-> p.task, risk |-> p.risk, userInput |-> input,
   plan |-> p, approved |-> approved, executed |-> executed, error |-> error,
   hash |-> generateHash(p, input), prevHash |-> prev]

\* what fs.appendFileSync can do: write the line, or throw when the store is
\* faulty (security.ts:472)
WriteOutcomes == IF storeFaulty THEN {TRUE, FALSE} ELSE {TRUE}

\* the message of the error appendFileSync throws
WriteError == "ENOSPC: no space left on device, write"

\* the message of the error `plan.task` throws on a null plan, security.ts:457
NullError == "Cannot read properties of null (reading 'task')"

\* the audit state a call starts from: the chain pointer, the file, whether
\* the last logAction threw and how many lines were written
AuditState ==
  [last |-> lastAuditHash, log |-> auditLog, threw |-> FALSE, wrote |-> 0,
   error |-> ""]

\* variant: the chain pointer advances only for approved actions
MutLogActionPointerOnApproval(st, input, p, approved, executed, error, ok) ==
  IF ~config.enableAuditLog THEN [st EXCEPT !.threw = FALSE]
  ELSE IF p.isNull THEN [st EXCEPT !.threw = TRUE, !.error = NullError]
  ELSE LET entry == AuditEntry(st.last, input, p, approved, executed, error)
       IN [last |-> IF approved THEN <<entry.hash>> ELSE st.last,
           log |-> IF ok THEN Append(st.log, entry) ELSE st.log,
           threw |-> ~ok,
           wrote |-> IF ok THEN st.wrote + 1 ELSE st.wrote,
           error |-> IF ok THEN "" ELSE WriteError]

\* SecurityService.logAction, security.ts:446-473, on the audit state st;
\* `ok` is whether appendFileSync writes the line.  The chain pointer is
\* set (468) before the line is appended (472).
logAction(st, input, p, approved, executed, error, ok) ==
  IF ~config.enableAuditLog THEN [st EXCEPT !.threw = FALSE]
  ELSE IF p.isNull THEN [st EXCEPT !.threw = TRUE, !.error = NullError]
  ELSE LET entry == AuditEntry(st.last, input, p, approved, executed, error)
       IN [last |-> <<entry.hash>>,
           log |-> IF ok THEN Append(st.log, entry) ELSE st.log,
           threw |-> ~ok,
           wrote |-> IF ok THEN st.wrote + 1 ELSE st.wrote,
           error |-> IF ok THEN "" ELSE WriteError]

\* the audit state st becomes the state of the service
Commit(p, st) ==
  /\ lastAuditHash' = st.last
  /\ auditLog' = st.log
  /\ logged' = [logged EXCEPT ![p] =
                   @ \o [k \in 1..st.wrote |-> Len(auditLog) + k]]

\* Array.prototype.slice(start) of JavaScript: a negative start counts from
\* the end, and -0 is 0
Slice(s, start) ==
  LET n == Len(s)
      from == IF start < 0
                THEN (IF n + start > 0 THEN n + start ELSE 0)
              ELSE (IF start < n THEN start ELSE n)
  IN SubSeq(s, from + 1, n)

\* Array.prototype.reverse
Reverse(s) == [k \in 1..Len(s) |-> s[Len(s) + 1 - k]]

\* SecurityService.getAuditLogs, security.ts:556-580, on the lines of the
\* file (every line was written by logAction and parses)
getAuditLogs(limit) == Reverse(Slice(auditLog, 0 - limit))

NoReply == [limit |-> 0 - 1, entries |-> <<>>]

\* SecurityService.recordAction, security.ts:436-441, on the history h
recordAction(h, action) == Append(h, [timestamp |-> now, action |-> action])

\* variant: without a window the request is approved instead of blocked
MutRequestConsentNoWindowApproves(p, input, w) ==
  IF ~validateTaskPlan(p, input).requiresApproval THEN "auto"
  ELSE IF ~w THEN "auto"
  ELSE IF validateTaskPlan(p, input).requiresPin THEN "pin"
  ELSE "approval"

(***************************************************************************)
(* SecurityConsentService.requestConsent, security-consent.ts:25-118, up   *)
(* to its first dialog: "auto" (approved without a prompt), "denied" (no   *)
(* window), or the dialog it opens ("pin", "approval").                    *)
(***************************************************************************)
requestConsent(p, input, w) ==
  IF ~validateTaskPlan(p, input).requiresApproval THEN "auto"
  ELSE IF validateTaskPlan(p, input).requiresPin
    THEN IF ~w THEN "denied" ELSE "pin"
  ELSE IF ~w THEN "denied" ELSE "approval"

(***************************************************************************)
(* SecureTaskExecutor.executePlan, task-executor.ts:33-118.  A call runs   *)
(* without interruption from one suspension (an open dialog, steps in      *)
(* flight) to the next, so each action below is one such turn.             *)
(***************************************************************************)
callInputs == <<plan, userInput, window>>
fixedVars ==
  <<config, whitelist, blacklist, killSwitchActive, now, storeFaulty,
    taskVars, auditReply>>

\* task-executor.ts:87-117 after executor-main's executePlan has returned
\* `inner`: the audit entry and the result; when logAction throws, the catch
\* block logs once more and returns the error, and if that throws too the
\* call itself throws
Finish(p, inner) ==
  /\ pc' = [pc EXCEPT ![p] = "done"]
  /\ execResult' = [execResult EXCEPT ![p] = inner]
  /\ \E ok \in WriteOutcomes, again \in WriteOutcomes :
       LET first == logAction(AuditState, userInput[p], plan[p], TRUE,
                              inner.success, inner.error, ok)
           retry == logAction(first, userInput[p], plan[p], TRUE, FALSE,
                              first.error, again)
       IN IF ~first.threw
            THEN /\ Commit(p, first)
                 /\ result' = [result EXCEPT ![p] =
                       TaskResult(inner.success, inner.error, inner.completedSteps)]
                 /\ UNCHANGED raised
          ELSE /\ Commit(p, retry)
               /\ IF ~retry.threw
                    THEN /\ result' = [result EXCEPT ![p] =
                               TaskResult(FALSE, first.error, 0)]
                         /\ UNCHANGED raised
                  ELSE /\ raised' = [raised EXCEPT ![p] = TRUE]
                       /\ UNCHANGED result

\* task-executor.ts:80-87 and executor-main.ts:26-55: recordAction, the
\* executor's own step validation, and the dispatch of the first wave
Start(p, h) ==
  LET steps == plan[p].steps
      fresh == [i \in 1..Len(steps) |-> "none"]
  IN /\ actionHistory' = recordAction(h, plan[p].task)
     /\ recorded' = [recorded EXCEPT ![p] = @ + 1]
     /\ recordedAt' = [recordedAt EXCEPT ![p] = now]
     /\ results' = [results EXCEPT ![p] = fresh]
     /\ UNCHANGED settled
     /\ IF FirstInvalid(steps) # ""
          THEN /\ Finish(p, MainResult(FALSE, 0, Len(steps), FirstInvalid(steps)))
               /\ UNCHANGED <<batchIndex, events>>
        ELSE IF Batches(steps) = <<>>
          THEN /\ Finish(p, BuildResult(steps, fresh))
               /\ UNCHANGED <<batchIndex, events>>
        ELSE /\ pc' = [pc EXCEPT ![p] = "exec"]
             /\ batchIndex' = [batchIndex EXCEPT ![p] = 1]
             /\ events' = events \o DispatchEvents(p, Batches(steps)[1])
             /\ UNCHANGED <<execResult, result, lastAuditHash, auditLog,
                            logged, raised>>

\* variant: a call that ends without execution leaves no audit entry
MutEndWithoutSilent(p, reason, error) ==
  /\ pc' = [pc EXCEPT ![p] = "done"]
  /\ result' = [result EXCEPT ![p] = TaskResult(FALSE, error, 0)]
  /\ UNCHANGED <<lastAuditHash, auditLog, logged, raised, recorded,
                 recordedAt, results, batchIndex, events, settled,
                 execResult>>

\* task-executor.ts:40-53 and 64-77: the call ends without execution,
\* logging `reason` and returning `error`; it throws when logAction does
EndWithout(p, reason, error) ==
  /\ pc' = [pc EXCEPT ![p] = "done"]
  /\ \E ok \in WriteOutcomes :
       LET st == logAction(AuditState, userInput[p], plan[p], FALSE, FALSE,
                           reason, ok)
       IN /\ Commit(p, st)
          /\ IF st.threw
               THEN /\ raised' = [raised EXCEPT ![p] = TRUE]
                    /\ UNCHANGED result
             ELSE /\ result' = [result EXCEPT ![p] = TaskResult(FALSE, error, 0)]
                  /\ UNCHANGED raised
  /\ UNCHANGED <<recorded, recordedAt, results, batchIndex, events, settled,
                 execResult>>

\* variant: the rejected plan is entered in the limiter's window
MutRejectRecords(p, v, h) ==
  /\ actionHistory' = recordAction(h, plan[p].task)
  /\ EndWithout(p, v.reason,
                IF v.reason = "" THEN "Plan validation failed" ELSE v.reason)

\* task-executor.ts:40-53: the plan did not pass validation
Reject(p, v, h) ==
  /\ actionHistory' = h
  /\ EndWithout(p, v.reason,
                IF v.reason = "" THEN "Plan validation failed" ELSE v.reason)

\* variant: the denial is noted but the plan goes on to execution
MutDenyProceeds(p, h) ==
  /\ consent' = [consent EXCEPT ![p] = "denied"]
  /\ Start(p, h)

\* task-executor.ts:64-77: consent was not given
Deny(p, h) ==
  /\ actionHistory' = h
  /\ consent' = [consent EXCEPT ![p] = "denied"]
  /\ EndWithout(p, "User denied consent", "User denied consent")

\* ipcMain.handle("task:execute"), main.ts:746-758: executePlan from its
\* entry to its first suspension
Call(p) ==
  /\ pc[p] = "idle"
  /\ LET v == validateTaskPlan(plan[p], userInput[p])
         h == HistoryAfterValidate(plan[p])
         c == requestConsent(plan[p], userInput[p], window[p])
     IN /\ validation' = [validation EXCEPT ![p] = v]
        /\ IF ~v.allowed
             THEN Reject(p, v, h) /\ UNCHANGED <<consent, prompt>>
           ELSE IF ~(v.requiresApproval \/ v.requiresPin)
             THEN Start(p, h) /\ UNCHANGED <<consent, prompt>>
           ELSE IF c = "auto"
             THEN /\ Start(p, h)
                  /\ consent' = [consent EXCEPT ![p] = "approved"]
                  /\ UNCHANGED prompt
           ELSE IF c = "denied"
             THEN Deny(p, h) /\ UNCHANGED prompt
           ELSE /\ pc' = [pc EXCEPT ![p] = "consent"]
                /\ prompt' = [prompt EXCEPT ![p] = c]
                /\ actionHistory' = h
                /\ UNCHANGED <<consent, recorded, recordedAt, results,
                               batchIndex, events, settled,
                               execResult, result, lastAuditHash, auditLog,
                               logged, raised>>
  /\ UNCHANGED <<response, callInputs, fixedVars>>

\* variant: a dialog that throws is not caught as a denial and the consent
\* request stays pending
MutConsentAnswerErrorPends(p, answer) ==
  /\ pc[p] = "consent"
  /\ response' = [response EXCEPT ![p] = answer]
  /\ IF answer = "approve"
       THEN /\ consent' = [consent EXCEPT ![p] = "approved"]
            /\ Start(p, actionHistory)
     ELSE IF answer = "deny"
       THEN Deny(p, actionHistory)
     ELSE /\ pc' = [pc EXCEPT ![p] = "pending"]
          /\ UNCHANGED <<consent, recorded, recordedAt, results, batchIndex,
                         events, settled, execResult, result, lastAuditHash,
                         auditLog, logged, raised, actionHistory>>
  /\ UNCHANGED <<validation, prompt, callInputs, fixedVars>>

\* dialog.showMessageBox settles, security-consent.ts:63-80 and 96-117:
\* response 0 ("approve"), response 1 ("deny") or a thrown error
ConsentAnswer(p, answer) ==
  /\ pc[p] = "consent"
  /\ response' = [response EXCEPT ![p] = answer]
  /\ IF answer = "approve"
       THEN /\ consent' = [consent EXCEPT ![p] = "approved"]
            /\ Start(p, actionHistory)
       ELSE Deny(p, actionHistory)
  /\ UNCHANGED <<validation, prompt, callInputs, fixedVars>>

\* the promise of step i of call p has settled
HasSettled(p, i) ==
  \E k \in 1..Len(settled) : settled[k][1] = p /\ settled[k][2] = i

\* variant: the result is pushed, so the slots fill in completion order
MutResultSlotByCompletion(p, i) ==
  1 + Cardinality({j \in 1..Len(results[p]) : results[p][j] # "none"})

\* results[task.index] = ..., executor-safety.ts:346 and 358: the slot of
\* the results array that the task of step i writes
ResultSlot(p, i) == createExecutionPlan(plan[p].steps)[i].index

\* variant: the loop goes on as soon as one step of the wave has settled
MutWaveDoneOnFirst(p, i) == TRUE

\* await Promise.all(batchPromises), executor-safety.ts:370: with step i
\* settling, every promise of the wave in flight has settled (a promise of
\* the wave never rejects: its catch block records the failure, 355-366)
WaveDone(p, i) ==
  \A j \in BatchSet(Batches(plan[p].steps)[batchIndex[p]]) :
    j = i \/ HasSettled(p, j)

\* a dispatched step settles, executor-safety.ts:343-370; with the last step
\* of the wave Promise.all resolves and the loop goes on to the next wave
\* or, after the last one, returns (executor-main.ts:57-80)
Report(p, i, outcome) ==
  LET steps == plan[p].steps
      batches == Batches(steps)
      res == [results[p] EXCEPT ![ResultSlot(p, i)] = outcome]
      reported == events \o <<(<<"report", p, i>>)>>
      waveDone == WaveDone(p, i)
  IN /\ pc[p] = "exec"
     /\ i \in BatchSet(batches[batchIndex[p]])
     /\ ~HasSettled(p, i)
     /\ outcome \in Outcomes(steps[i])
     /\ results' = [results EXCEPT ![p] = res]
     /\ settled' = Append(settled, <<p, i, outcome>>)
     /\ IF ~waveDone
          THEN /\ events' = reported
               /\ UNCHANGED <<pc, batchIndex, execResult, result,
                              lastAuditHash, auditLog, logged, raised>>
        ELSE IF batchIndex[p] < Len(batches)
          THEN /\ batchIndex' = [batchIndex EXCEPT ![p] = @ + 1]
               /\ events' = reported \o DispatchEvents(p, batches[batchIndex[p] + 1])
               /\ UNCHANGED <<pc, execResult, result, lastAuditHash, auditLog,
                              logged, raised>>
        ELSE /\ events' = reported
             /\ Finish(p, BuildResult(steps, res))
             /\ UNCHANGED batchIndex
     /\ UNCHANGED <<validation, consent, prompt, response, recorded,
                    recordedAt, actionHistory, callInputs, fixedVars>>

\* ipcMain.handle("security:validate-plan"), main.ts:520-529
ValidatePlan(p) ==
  /\ pc[p] = "query"
  /\ validation' = [validation EXCEPT ![p] = validateTaskPlan(plan[p], userInput[p])]
  /\ actionHistory' = HistoryAfterValidate(plan[p])
  /\ pc' = [pc EXCEPT ![p] = "answered"]
  /\ UNCHANGED <<consent, prompt, response, recorded, recordedAt, results,
                 batchIndex, events, settled, execResult, result,
                 lastAuditHash, auditLog, logged,
                 raised, callInputs, fixedVars>>

\* ipcMain.handle("security:request-consent"), main.ts:531-546:
\* requestConsent on its own, from its entry to its first dialog
RequestConsent(p) ==
  /\ pc[p] = "query"
  /\ LET c == requestConsent(plan[p], userInput[p], window[p])
     IN /\ validation' = [validation EXCEPT ![p] =
                            validateTaskPlan(plan[p], userInput[p])]
        /\ actionHistory' = HistoryAfterValidate(plan[p])
        /\ IF c \in {"pin", "approval"}
             THEN /\ prompt' = [prompt EXCEPT ![p] = c]
                  /\ pc' = [pc EXCEPT ![p] = "asked"]
                  /\ UNCHANGED consent
           ELSE /\ consent' = [consent EXCEPT ![p] =
                                 IF c = "auto" THEN "approved" ELSE "denied"]
                /\ pc' = [pc EXCEPT ![p] = "consulted"]
                /\ UNCHANGED prompt
  /\ UNCHANGED <<response, recorded, recordedAt, results, batchIndex, events,
                 settled, execResult, result, lastAuditHash, auditLog, logged,
                 raised, callInputs, fixedVars>>

\* the dialog of a consent request settles, security-consent.ts:63-80 and
\* 96-117
ConsentReply(p, answer) ==
  /\ pc[p] = "asked"
  /\ response' = [response EXCEPT ![p] = answer]
  /\ consent' = [consent EXCEPT ![p] =
                   IF answer = "approve" THEN "approved" ELSE "denied"]
  /\ pc' = [pc EXCEPT ![p] = "consulted"]
  /\ UNCHANGED <<validation, prompt, actionHistory, recorded, recordedAt,
                 results, batchIndex, events, settled, execResult, result,
                 lastAuditHash, auditLog, logged, raised, callInputs,
                 fixedVars>>

\* SecurityService.activateKillSwitch, security.ts:486-489
activateKillSwitch ==
  /\ ~killSwitchActive
  /\ killSwitchActive' = TRUE
  /\ UNCHANGED <<config, actionHistory, lastAuditHash, whitelist, blacklist,
                 auditLog, storeFaulty, now, callVars>>

\* SecurityService.deactivateKillSwitch, security.ts:494-497
deactivateKillSwitch ==
  /\ killSwitchActive
  /\ killSwitchActive' = FALSE
  /\ UNCHANGED <<config, actionHistory, lastAuditHash, whitelist, blacklist,
                 auditLog, storeFaulty, now, callVars>>

\* the clock read by Date.now() moves on
Tick ==
  /\ now + TickMs <= MaxNow
  /\ now' = now + TickMs
  /\ UNCHANGED <<config, actionHistory, killSwitchActive, lastAuditHash,
                 whitelist, blacklist, auditLog, storeFaulty, callVars>>

\* executeWithAgents is called with taskList: groupIntoBatches runs to its
\* end (executor-safety.ts:327) and the first wave, when there is one, is
\* dispatched in the same turn
CallWithAgents ==
  /\ taskPc = "called"
  /\ taskBatches' = groupIntoBatches(taskList)
  /\ IF taskBatches' = <<>>
       THEN taskPc' = "returned" /\ taskWave' = 0
     ELSE taskPc' = "running" /\ taskWave' = 1
  /\ UNCHANGED <<taskList, config, actionHistory, killSwitchActive,
                 lastAuditHash, whitelist, blacklist, auditLog, storeFaulty,
                 now, pc, plan, userInput, window, validation, consent, prompt,
                 response, batchIndex, results, execResult, result, recorded,
                 recordedAt, logged, raised, events, settled, auditReply>>

\* Promise.all of the wave in flight resolves: the loop dispatches the next
\* wave or, after the last one, returns (executor-safety.ts:329-373)
WaveSettles ==
  /\ taskPc = "running"
  /\ IF taskWave < Len(taskBatches)
       THEN taskWave' = taskWave + 1 /\ UNCHANGED taskPc
     ELSE taskPc' = "returned" /\ UNCHANGED taskWave
  /\ UNCHANGED <<taskList, taskBatches, config, actionHistory,
                 killSwitchActive, lastAuditHash, whitelist, blacklist,
                 auditLog, storeFaulty, now, pc, plan, userInput, window,
                 validation, consent, prompt, response, batchIndex, results,
                 execResult, result, recorded, recordedAt, logged, raised,
                 events, settled, auditReply>>

\* ipcMain.handle("security:get-audit-logs"): one request with `limit`
GetAuditLogs(limit) ==
  /\ auditReply = NoReply
  /\ auditReply' = [limit |-> limit, entries |-> getAuditLogs(limit)]
  /\ UNCHANGED <<config, actionHistory, killSwitchActive, lastAuditHash,
                 whitelist, blacklist, auditLog, storeFaulty, now, pc, plan,
                 userInput, window, validation, consent, prompt, response,
                 batchIndex, results, execResult, result, recorded,
                 recordedAt, logged, raised, events, settled, taskVars>>

\* the application is started again while no call is suspended: a new
\* SecurityService is constructed (security.ts:117-138) with its fields at
\* their initial values, on the audit file of the day, which is kept
Restart ==
  /\ \A p \in Procs : pc[p] \in {"off", "idle", "done"}
  /\ actionHistory' = <<>>
  /\ killSwitchActive' = FALSE
  /\ lastAuditHash' = <<>>
  /\ UNCHANGED <<config, whitelist, blacklist, auditLog, storeFaulty, now,
                 callVars>>

(***************************************************************************)
(* Inputs.                                                                 *)
(***************************************************************************)
SeqsUpTo(S, n) == UNION {[1..k -> S] : k \in 0..n}

\* steps of every kind the validators distinguish
ValSteps ==
  {OpenAppStep("notepad"), OpenAppStep("chrome"), OpenAppStep("regedit"),
   OpenAppStep("calc;evil"), OpenAppStep(""),
   SystemSettingStep("display.brightness", "30"),
   SystemSettingStep("system.shutdown", "1"),
   MessageStep("bob", "hello"), MessageStep("bob", ""),
   TypeStep("hello"), TypeStep("rm -rf /"), TypeStep("long51"),
   ShortcutStep("ctrl+c"), ShortcutStep("alt+f4"),
   WaitStep("500"), BareStep("Confirm"), BareStep("Navigate"),
   BareStep("Bogus")}

\* steps of the pipeline specification: accepted ones, one the executor's
\* validateStep rejects (a setting without a value), one the security
\* service rejects (dangerous text)
PipeSteps ==
  {OpenAppStep("notepad"), TypeStep("hello"),
   SystemSettingStep("display.brightness", "30"), MessageStep("bob", "hello"),
   SystemSettingStep("display.brightness", ""), TypeStep("rm -rf /")}

\* one accepted step of each kind the scheduler distinguishes
SchedSteps ==
  {OpenAppStep("notepad"), SystemSettingStep("display.brightness", "30"),
   WaitStep("500"), TypeStep("hello"), MessageStep("bob", "hello"),
   BareStep("Confirm")}

PlansOver(S, n) ==
  {Plan("task", r, st) : r \in RiskLevels, st \in SeqsUpTo(S, n)}

\* plans that fail the structure check: no task, no step list
MalformedPlans ==
  {Plan("", "low", <<OpenAppStep("notepad")>>),
   [Plan("task", "low", <<>>) EXCEPT !.hasSteps = FALSE]}

Inputs == {"hello", "rm -rf /"}

\* configurations: the default, with the PIN for high risk, and with
\* approval switched off
Configs ==
  {DEFAULT_CONFIG,
   [DEFAULT_CONFIG EXCEPT !.requirePinForHigh = TRUE],
   [DEFAULT_CONFIG EXCEPT !.requireApprovalForMedium = FALSE,
                          !.requireApprovalForHigh = FALSE]}

\* a window of the limiter filled by earlier accepted plans
FullHistory == [k \in 1..MaxActions |-> [timestamp |-> 0, action |-> "task"]]

(***************************************************************************)
(* Initial states.                                                         *)
(***************************************************************************)
\* the service as constructed (security.ts:117-138) and the calls not begun
InitCalls ==
  /\ killSwitchActive = FALSE
  /\ response = [p \in Procs |-> "none"]
  /\ logged = [p \in Procs |-> <<>>]
  /\ raised = [p \in Procs |-> FALSE]
  /\ lastAuditHash = <<>>
  /\ auditLog = <<>>
  /\ now = 0
  /\ validation = [p \in Procs |-> NoValidation]
  /\ consent = [p \in Procs |-> "none"]
  /\ prompt = [p \in Procs |-> "none"]
  /\ batchIndex = [p \in Procs |-> 0]
  /\ results = [p \in Procs |-> <<>>]
  /\ execResult = [p \in Procs |-> NoMainResult]
  /\ result = [p \in Procs |-> NoTaskResult]
  /\ recorded = [p \in Procs |-> 0]
  /\ recordedAt = [p \in Procs |-> -1]
  /\ events = <<>>
  /\ settled = <<>>
  /\ auditReply = NoReply

\* no direct call of executeWithAgents is made
InitCommon ==
  /\ InitCalls
  /\ taskPc = "off"
  /\ taskList = <<>>
  /\ taskBatches = <<>>
  /\ taskWave = 0

\* one executePlan call with any plan of the pipeline
Init ==
  /\ InitCommon
  /\ storeFaulty = FALSE
  /\ config \in Configs
  /\ whitelist = {}
  /\ blacklist = {}
  /\ actionHistory \in {<<>>, FullHistory}
  /\ pc = [p \in Procs |-> IF p = 1 THEN "idle" ELSE "off"]
  /\ \E pl \in PlansOver(PipeSteps, MaxPlanLen) \cup MalformedPlans :
       plan = [p \in Procs |-> pl]
  /\ \E input \in Inputs : userInput = [p \in Procs |-> input]
  /\ \E w \in BOOLEAN : window = [p \in Procs |-> w]

Next ==
  \/ \E p \in Procs : Call(p)
  \/ \E p \in Procs : \E answer \in {"approve", "deny", "error"} :
       ConsentAnswer(p, answer)
  \/ \E p \in Procs : \E i \in 1..Len(plan[p].steps) :
       \E outcome \in {"ok", "fail"} : Report(p, i, outcome)
  \/ activateKillSwitch
  \/ deactivateKillSwitch
  \/ Tick

Spec == Init /\ [][Next]_vars

\* the scheduler: one call with a low-risk plan of accepted steps
InitSched ==
  /\ InitCommon
  /\ storeFaulty = FALSE
  /\ config = DEFAULT_CONFIG
  /\ whitelist = {}
  /\ blacklist = {}
  /\ actionHistory = <<>>
  /\ pc = [p \in Procs |-> IF p = 1 THEN "idle" ELSE "off"]
  /\ \E st \in SeqsUpTo(SchedSteps, MaxSchedLen) :
       plan = [p \in Procs |-> Plan("task", "low", st)]
  /\ userInput = [p \in Procs |-> "hello"]
  /\ window = [p \in Procs |-> TRUE]

NextSched ==
  \/ \E p \in Procs : Call(p)
  \/ \E p \in Procs : \E i \in 1..Len(plan[p].steps) :
       \E outcome \in {"ok", "fail"} : Report(p, i, outcome)

SpecSched == InitSched /\ [][NextSched]_vars

\* the validator alone: one "security:validate-plan" request with any plan
InitValidate ==
  /\ InitCommon
  /\ storeFaulty = FALSE
  /\ config \in Configs
  /\ \E lists \in {<<{}, {}>>, <<{"OpenApp", "Type", "Message"}, {"Navigate"}>>} :
       whitelist = lists[1] /\ blacklist = lists[2]
  /\ actionHistory \in {<<>>, FullHistory}
  /\ pc = [p \in Procs |-> IF p = 1 THEN "query" ELSE "off"]
  /\ \E pl \in PlansOver(ValSteps, MaxValLen) \cup MalformedPlans
                  \cup {NullPlan} :
       plan = [p \in Procs |-> pl]
  /\ \E input \in Inputs : userInput = [p \in Procs |-> input]
  /\ window = [p \in Procs |-> TRUE]

NextValidate ==
  \/ \E p \in Procs : ValidatePlan(p)
  \/ activateKillSwitch
  \/ deactivateKillSwitch

SpecValidate == InitValidate /\ [][NextValidate]_vars

\* plans of the concurrent specification: the one-setting plan, a message
\* of high risk, a two-wave plan of medium risk, a plan with an unknown
\* operation
MultiPlans ==
  {Plan("task", "low", <<SystemSettingStep("display.brightness", "30")>>),
   Plan("task", "high", <<MessageStep("bob", "hello")>>),
   Plan("task", "medium", <<TypeStep("hello"), TypeStep("hello")>>),
   Plan("task", "low", <<OpenAppStep("notepad"), BareStep("Bogus")>>)}

\* configurations of the concurrent specification: the default, a limiter
\* of one action per minute, the PIN without approval for high risk, and
\* the audit log switched off
MultiConfigs ==
  {DEFAULT_CONFIG,
   [DEFAULT_CONFIG EXCEPT !.maxActionsPerMinute = 1],
   [DEFAULT_CONFIG EXCEPT !.requireApprovalForHigh = FALSE,
                          !.requirePinForHigh = TRUE],
   [DEFAULT_CONFIG EXCEPT !.enableAuditLog = FALSE]}

\* the service as constructed and every call of Procs about to be made
\* ("task:execute" invocations are handled concurrently)
InitMulti ==
  /\ InitCommon
  /\ storeFaulty = FALSE
  /\ config \in MultiConfigs
  /\ whitelist = {}
  /\ blacklist = {}
  /\ actionHistory = <<>>
  /\ pc = [p \in Procs |-> "idle"]
  /\ \E pl \in MultiPlans : plan = [p \in Procs |-> pl]
  /\ userInput = [p \in Procs |-> IF p = 1 THEN "hello" ELSE "hi"]
  /\ window = [p \in Procs |-> TRUE]

NextMulti ==
  \/ \E p \in Procs : Call(p)
  \/ \E p \in Procs : \E answer \in {"approve", "deny", "error"} :
       ConsentAnswer(p, answer)
  \/ \E p \in Procs : \E i \in 1..Len(plan[p].steps) :
       \E outcome \in {"ok", "fail"} : Report(p, i, outcome)

SpecMulti == InitMulti /\ [][NextMulti]_vars

\* every consent prompt is eventually answered: the await of
\* dialog.showMessageBox (security-consent.ts:63, 96) resumes
PromptsAnswered ==
  \A p \in Procs :
    WF_vars(\E answer \in {"approve", "deny", "error"} : ConsentAnswer(p, answer))

\* steps of each risk checkStepSafety tells apart: low, medium (a command
\* line, a setting) and high (the registry editor)
SafetySteps ==
  {OpenAppStep("notepad"), OpenAppStep("cmd"), OpenAppStep("regedit"),
   SystemSettingStep("display.brightness", "30")}

\* one call with a plan of up to MaxPlanLen steps of SafetySteps, declared
\* at any risk, under any configuration
InitSafety ==
  /\ InitCommon
  /\ storeFaulty = FALSE
  /\ config \in Configs
  /\ whitelist = {}
  /\ blacklist = {}
  /\ actionHistory = <<>>
  /\ pc = [p \in Procs |-> IF p = 1 THEN "idle" ELSE "off"]
  /\ \E pl \in PlansOver(SafetySteps, MaxPlanLen) :
       plan = [p \in Procs |-> pl]
  /\ userInput = [p \in Procs |-> "hello"]
  /\ window = [p \in Procs |-> TRUE]

SpecSafety == InitSafety /\ [][NextMulti]_vars

\* plans of the fair specification: every list of up to MaxPlanLen steps
\* that run in parallel (OpenApp), run alone (Type) or are rejected by the
\* security service (dangerous text), at every risk level; a plan whose step
\* the executor's validateStep rejects; the malformed plans
LivePlans ==
  PlansOver({OpenAppStep("notepad"), TypeStep("hello"), TypeStep("rm -rf /")},
            MaxPlanLen)
    \cup {Plan("task", "low", <<SystemSettingStep("display.brightness", "")>>)}
    \cup MalformedPlans

\* one call with a plan of LivePlans, under any configuration, with or
\* without a window
InitLive ==
  /\ InitCommon
  /\ storeFaulty = FALSE
  /\ config \in Configs
  /\ whitelist = {}
  /\ blacklist = {}
  /\ actionHistory = <<>>
  /\ pc = [p \in Procs |-> IF p = 1 THEN "idle" ELSE "off"]
  /\ \E pl \in LivePlans : plan = [p \in Procs |-> pl]
  /\ userInput = [p \in Procs |-> "hello"]
  /\ \E w \in BOOLEAN : window = [p \in Procs |-> w]

\* every dispatched step eventually reports: the await of executeFn
\* (executor-safety.ts:343) resumes, by success or by failure
StepsReport ==
  \A p \in Procs : \A i \in 1..MaxPlanLen :
    WF_vars(\E outcome \in {"ok", "fail"} : Report(p, i, outcome))

\* the call under the claim's two assumptions about the environment
SpecLive == InitLive /\ [][NextMulti]_vars /\ PromptsAnswered /\ StepsReport

\* the limiter: every call of Procs about to be made with the one-setting
\* plan, under a ceiling between 1 and MaxActions, while the clock runs
InitLimiter ==
  /\ InitCommon
  /\ storeFaulty = FALSE
  /\ \E n \in 1..MaxActions :
       config = [DEFAULT_CONFIG EXCEPT !.maxActionsPerMinute = n]
  /\ whitelist = {}
  /\ blacklist = {}
  /\ actionHistory = <<>>
  /\ pc = [p \in Procs |-> "idle"]
  /\ plan = [p \in Procs |->
               Plan("task", "low", <<SystemSettingStep("display.brightness", "30")>>)]
  /\ userInput = [p \in Procs |-> "hello"]
  /\ window = [p \in Procs |-> TRUE]

NextLimiter ==
  \/ \E p \in Procs : Call(p)
  \/ \E p \in Procs : \E i \in 1..Len(plan[p].steps) :
       \E outcome \in {"ok", "fail"} : Report(p, i, outcome)
  \/ Tick

SpecLimiter == InitLimiter /\ [][NextLimiter]_vars

\* the consent service alone: one "security:request-consent" request with
\* any plan, with or without a window
InitConsent ==
  /\ InitCommon
  /\ storeFaulty = FALSE
  /\ config \in Configs
  /\ whitelist = {}
  /\ blacklist = {}
  /\ actionHistory \in {<<>>, FullHistory}
  /\ pc = [p \in Procs |-> IF p = 1 THEN "query" ELSE "off"]
  /\ \E pl \in PlansOver(ValSteps, MaxValLen) \cup MalformedPlans
                  \cup {NullPlan} :
       plan = [p \in Procs |-> pl]
  /\ \E input \in Inputs : userInput = [p \in Procs |-> input]
  /\ \E w \in BOOLEAN : window = [p \in Procs |-> w]

NextConsent ==
  \/ \E p \in Procs : RequestConsent(p)
  \/ \E p \in Procs : \E answer \in {"approve", "deny", "error"} :
       ConsentReply(p, answer)
  \/ activateKillSwitch
  \/ deactivateKillSwitch

SpecConsent == InitConsent /\ [][NextConsent]_vars

\* plans of the failure specification: an accepted one, one that needs
\* consent, one without a task, and null in the place of a plan (the "plan"
\* argument of "task:execute" is untyped, main.ts:749)
FaultyPlans ==
  {Plan("task", "low", <<SystemSettingStep("display.brightness", "30")>>),
   Plan("task", "medium", <<TypeStep("hello")>>),
   Plan("", "low", <<OpenAppStep("notepad")>>),
   NullPlan}

\* every call of Procs about to be made, with the audit log enabled or not,
\* on a log file whose writes succeed or may fail (appendFileSync throws)
InitFaulty ==
  /\ InitCommon
  /\ storeFaulty \in BOOLEAN
  /\ config \in {DEFAULT_CONFIG, [DEFAULT_CONFIG EXCEPT !.enableAuditLog = FALSE]}
  /\ whitelist = {}
  /\ blacklist = {}
  /\ actionHistory = <<>>
  /\ pc = [p \in Procs |-> "idle"]
  /\ \E pl \in FaultyPlans : plan = [p \in Procs |-> pl]
  /\ userInput = [p \in Procs |-> IF p = 1 THEN "hello" ELSE "hi"]
  /\ window = [p \in Procs |-> TRUE]

NextFaulty ==
  \/ \E p \in Procs : Call(p)
  \/ \E p \in Procs : \E answer \in {"approve", "deny", "error"} :
       ConsentAnswer(p, answer)
  \/ \E p \in Procs : \E i \in 1..Len(plan[p].steps) :
       \E outcome \in {"ok", "fail"} : Report(p, i, outcome)

SpecFaulty == InitFaulty /\ [][NextFaulty]_vars

\* the audit file: every call of Procs about to be made with a plan that is
\* accepted, each with its own input, one read of the log, and restarts of
\* the application
InitAudit ==
  /\ InitCommon
  /\ storeFaulty = FALSE
  /\ config = DEFAULT_CONFIG
  /\ whitelist = {}
  /\ blacklist = {}
  /\ actionHistory = <<>>
  /\ pc = [p \in Procs |-> "idle"]
  /\ plan = [p \in Procs |->
               Plan("task", "low", <<SystemSettingStep("display.brightness", "30")>>)]
  /\ userInput = [p \in Procs |-> IF p = 1 THEN "hello" ELSE "hi"]
  /\ window = [p \in Procs |-> TRUE]

NextAudit ==
  \/ \E p \in Procs : Call(p)
  \/ \E p \in Procs : \E i \in 1..Len(plan[p].steps) :
       \E outcome \in {"ok", "fail"} : Report(p, i, outcome)
  \/ \E limit \in 0..MaxLimit : GetAuditLogs(limit)
  \/ Restart

SpecAudit == InitAudit /\ [][NextAudit]_vars

\* dependency lists of a task among n: none, one index (its own included),
\* or every index
DependencySets(n) == {{}} \cup {{d} : d \in 1..n} \cup {1..n}

\* the task lists of n tasks (ExecutionTask, executor-safety.ts:242-247),
\* index being the position as createExecutionPlan assigns it
TaskLists(n) ==
  {[k \in 1..n |-> [index |-> k, op |-> "Type", canRunInParallel |-> par[k],
                    dependencies |-> deps[k]]] :
     par \in [1..n -> BOOLEAN], deps \in [1..n -> DependencySets(n)]}

\* executeWithAgents about to be called with any list of up to MaxTasks
\* tasks; no executePlan call is made
InitAgents ==
  /\ InitCalls
  /\ storeFaulty = FALSE
  /\ config = DEFAULT_CONFIG
  /\ whitelist = {}
  /\ blacklist = {}
  /\ actionHistory = <<>>
  /\ pc = [p \in Procs |-> "off"]
  /\ plan = [p \in Procs |-> Plan("task", "low", <<>>)]
  /\ userInput = [p \in Procs |-> "hello"]
  /\ window = [p \in Procs |-> TRUE]
  /\ taskPc = "called"
  /\ \E n \in 0..MaxTasks : taskList \in TaskLists(n)
  /\ taskBatches = <<>>
  /\ taskWave = 0

NextAgents ==
  \/ CallWithAgents
  \/ WaveSettles

SpecAgents == InitAgents /\ [][NextAgents]_vars

(***************************************************************************)
(* Properties.  What the capability provider saw is read off `events`.     *)
(***************************************************************************)
KillReason == "Kill switch is active. All actions are blocked."

IsDispatched(p, i) ==
  \E k \in 1..Len(events) : events[k] = <<"dispatch", p, i>>

IsReported(p, i) ==
  \E k \in 1..Len(events) : events[k] = <<"report", p, i>>

Dispatched(p) == {i \in 1..Len(plan[p].steps) : IsDispatched(p, i)}

\* the call passed validation and consent and entered the executor
EnteredExecutor(p) == recorded[p] > 0

\* indices of the steps the executor's validateStep rejects
InvalidSteps(p) ==
  {i \in 1..Len(plan[p].steps) : executorValidateStep(plan[p].steps[i]) # ""}

Min(S) == CHOOSE x \in S : \A y \in S : x <= y

\* C1: when the kill switch is active at the moment executePlan validates
\* the plan, the validation result is the kill-switch rejection whatever the
\* plan (malformed, rate-limited, dangerous or fine), the call ends at once
\* with success=false and executedSteps=0, and no step of the plan is ever
\* dispatched.
C1_KillSwitchBlocksEveryPlan ==
  /\ [](\A p \in Procs :
          validation[p].reason = KillReason => Dispatched(p) = {})
  /\ [][\A p \in Procs :
          (pc[p] = "idle" /\ pc'[p] # "idle" /\ killSwitchActive) =>
            /\ validation'[p] = Rejected(KillReason)
            /\ pc'[p] = "done"
            /\ events' = events
            /\ result'[p] = TaskResult(FALSE, KillReason, 0)]_vars

\* a call with a plan that every other check accepts was rejected by the
\* active kill switch
C1_Witness ==
  /\ pc[1] = "done"
  /\ killSwitchActive
  /\ validation[1] = Rejected(KillReason)
  /\ Len(plan[1].steps) = MaxPlanLen
  /\ ~InvalidStructure(plan[1])
  /\ actionHistory = <<>>
  /\ \A i \in 1..Len(plan[1].steps) :
       validateStep(plan[1].steps[i], userInput[1]).allowed

\* C2: when step 1 of executePlan found requiresApproval=true, a step of the
\* plan is dispatched only if the consent request returned approved=true;
\* when it returned approved=false the call has ended with success=false,
\* executedSteps=0 and nothing dispatched.
C2_NoDispatchWithoutConsent ==
  \A p \in Procs :
    (validation[p].allowed /\ validation[p].requiresApproval) =>
      /\ Dispatched(p) # {} => consent[p] = "approved"
      /\ EnteredExecutor(p) => consent[p] = "approved"
      /\ consent[p] = "denied" =>
           /\ pc[p] = "done"
           /\ Dispatched(p) = {}
           /\ result[p] = TaskResult(FALSE, "User denied consent", 0)

\* the user denied the dialog of a plan that needs approval
C2_Witness ==
  /\ validation[1].allowed
  /\ validation[1].requiresApproval
  /\ prompt[1] = "approval"
  /\ consent[1] = "denied"
  /\ Len(plan[1].steps) > 0
  /\ pc[1] = "done"

\* C5: a plan that fails validation is never partially executed.  When
\* validateTaskPlan returned allowed=false, or the call reached the executor
\* and its validateStep rejects some step, the call has ended with no step
\* dispatched, success=false, executedSteps=0 (completedSteps=0) and the
\* reason of the rejection as its error.
C5_RejectedPlanNotExecuted ==
  \A p \in Procs :
    /\ (pc[p] \in {"consent", "exec", "done"} /\ ~validation[p].allowed) =>
         /\ pc[p] = "done"
         /\ Dispatched(p) = {}
         /\ validation[p].reason # ""
         /\ result[p] = TaskResult(FALSE, validation[p].reason, 0)
    /\ (EnteredExecutor(p) /\ InvalidSteps(p) # {}) =>
         /\ pc[p] = "done"
         /\ Dispatched(p) = {}
         /\ execResult[p].completedSteps = 0
         /\ result[p] =
              TaskResult(FALSE,
                executorValidateStep(plan[p].steps[Min(InvalidSteps(p))]), 0)

\* a two-step plan whose second step only the executor's validateStep
\* rejects reached the executor and ended without a dispatch
C5_Witness ==
  /\ pc[1] = "done"
  /\ EnteredExecutor(1)
  /\ Len(plan[1].steps) = 2
  /\ InvalidSteps(1) = {2}
  /\ Dispatched(1) = {}
  /\ ~result[1].success

(***************************************************************************)
(* Properties of the validator (SpecValidate).                             *)
(***************************************************************************)
HasMessage(pl) == \E i \in 1..Len(pl.steps) : pl.steps[i].op = "Message"

RiskRank(r) == CASE r = "low" -> 0 [] r = "medium" -> 1 [] OTHER -> 2

\* the maximum of the declared risk and the risk of every step
AggregatedRank(pl) ==
  LET ranks == {RiskRank(pl.risk)} \cup
               {RiskRank(checkStepSafety(pl.steps[i])) : i \in 1..Len(pl.steps)}
  IN CHOOSE r \in ranks : \A q \in ranks : q <= r

\* C3: every plan that contains a Message step and passes validation gets
\* requiresApproval=true, whatever its declared risk (stated here for the
\* default configuration, where approval is on for medium and high).
C3_MessageRequiresApproval ==
  \A p \in Procs :
    (/\ pc[p] = "answered"
     /\ config = DEFAULT_CONFIG
     /\ validation[p].allowed
     /\ HasMessage(plan[p])) => validation[p].requiresApproval

\* C4: with the default configuration every allowed plan whose aggregated
\* risk is high gets requiresApproval=true.
C4_HighRiskRequiresApproval ==
  \A p \in Procs :
    (/\ pc[p] = "answered"
     /\ config = DEFAULT_CONFIG
     /\ validation[p].allowed
     /\ AggregatedRank(plan[p]) = RiskRank("high")) =>
      validation[p].requiresApproval

(***************************************************************************)
(* Properties of the scheduler (SpecSched).                                *)
(***************************************************************************)
\* position in `events` of an event, 0 when it has not happened
Pos(e) ==
  IF \E k \in 1..Len(events) : events[k] = e
    THEN CHOOSE k \in 1..Len(events) : events[k] = e
  ELSE 0

DispatchPos(p, i) == Pos(<<"dispatch", p, i>>)

\* position of a step's report, beyond the end while it is in flight
ReportPos(p, i) ==
  IF IsReported(p, i) THEN Pos(<<"report", p, i>>) ELSE Len(events) + 1

\* both steps were in flight at the same time
InFlightTogether(p, i, j) ==
  /\ IsDispatched(p, i)
  /\ IsDispatched(p, j)
  /\ DispatchPos(p, i) < ReportPos(p, j)
  /\ DispatchPos(p, j) < ReportPos(p, i)

\* C6: no step is dispatched before every step it depends on (the
\* dependencies createExecutionPlan gave it) has recorded its outcome.
C6_DependenciesReportFirst ==
  \A p \in Procs : \A i \in 1..Len(plan[p].steps) :
    IsDispatched(p, i) =>
      \A d \in Dependencies(plan[p].steps, i) :
        IsReported(p, d) /\ ReportPos(p, d) < DispatchPos(p, i)

\* C7: a step marked non-parallel-safe runs alone: no other step of the plan
\* is in flight while it is (so for [OpenApp, Wait, Type] the OpenApp and
\* the Wait are never in flight together).
C7_NonParallelStepRunsAlone ==
  \A p \in Procs : \A i, j \in 1..Len(plan[p].steps) :
    (i # j /\ ~CanRunInParallel(plan[p].steps, i)) =>
      ~InFlightTogether(p, i, j)

AllSystemSettings(pl) ==
  /\ Len(pl.steps) >= 2
  /\ \A i \in 1..Len(pl.steps) : pl.steps[i].op = "SystemSetting"

\* C8: for a plan of consecutive SystemSetting steps, once the scheduler
\* runs, all of them have been dispatched before any has reported (one
\* wave), and the wave is complete (the call returns) only after all of
\* them have reported.
C8_SystemSettingsShareAWave ==
  \A p \in Procs :
    (AllSystemSettings(plan[p]) /\ pc[p] \in {"exec", "done"}) =>
      /\ \A i \in 1..Len(plan[p].steps) : IsDispatched(p, i)
      /\ \A i, j \in 1..Len(plan[p].steps) : DispatchPos(p, i) < ReportPos(p, j)
      /\ pc[p] = "done" => \A i \in 1..Len(plan[p].steps) : IsReported(p, i)
      /\ (\E i \in 1..Len(plan[p].steps) : ~IsReported(p, i)) => pc[p] = "exec"

\* a wave of MaxSchedLen SystemSetting steps, the first two reported and the
\* last still in flight
C8_Witness ==
  /\ AllSystemSettings(plan[1])
  /\ Len(plan[1].steps) = MaxSchedLen
  /\ pc[1] = "exec"
  /\ Dispatched(1) = 1..MaxSchedLen
  /\ IsReported(1, 1)
  /\ IsReported(1, 2)
  /\ ~IsReported(1, MaxSchedLen)

\* C9: when a Message step has failed, no step after it in the plan is
\* dispatched, and the result of the call has success=false.
C9_MessageFailureAborts ==
  \A p \in Procs : \A i \in 1..Len(plan[p].steps) :
    (/\ pc[p] \in {"exec", "done"}
     /\ plan[p].steps[i].op = "Message"
     /\ results[p][i] = "fail") =>
      /\ \A j \in (i + 1)..Len(plan[p].steps) : ~IsDispatched(p, j)
      /\ pc[p] = "done" => ~result[p].success

Succeeded(p) == {i \in 1..Len(plan[p].steps) : results[p][i] = "ok"}

\* C10: a failed step other than a Message does not stop the plan: when the
\* call has returned, every step after the failed one was dispatched, and
\* the result counts completedSteps = number of steps that succeeded,
\* totalSteps = length of the plan, success iff all succeeded.
C10_FailureIsNotFatal ==
  \A p \in Procs :
    (pc[p] = "done" /\ EnteredExecutor(p) /\ InvalidSteps(p) = {}) =>
      /\ \A i \in 1..Len(plan[p].steps) :
           (results[p][i] = "fail" /\ plan[p].steps[i].op # "Message") =>
             \A j \in (i + 1)..Len(plan[p].steps) : IsDispatched(p, j)
      /\ execResult[p].completedSteps = Cardinality(Succeeded(p))
      /\ execResult[p].totalSteps = Len(plan[p].steps)
      /\ execResult[p].success = (Succeeded(p) = 1..Len(plan[p].steps))
      /\ result[p] = TaskResult(execResult[p].success, "",
                                Cardinality(Succeeded(p)))

\* a three-step plan in which only step 2 failed: step 3 was dispatched
\* after the failure, completedSteps = 2 of 3, success = false
C10_Witness ==
  /\ pc[1] = "done"
  /\ Len(plan[1].steps) = 3
  /\ results[1] = <<"ok", "fail", "ok">>
  /\ plan[1].steps[2].op # "Message"
  /\ ReportPos(1, 2) < DispatchPos(1, 3)
  /\ execResult[1] = MainResult(FALSE, 2, 3, "")
  /\ result[1] = TaskResult(FALSE, "", 2)

(***************************************************************************)
(* Properties of the rate limiter (SpecLimiter).                           *)
(***************************************************************************)
\* the calls that have recorded an action
Recorders == {q \in Procs : recordedAt[q] >= 0}

\* C11: with the limiter configured for N actions per minute, a call that
\* validates its plan when N recordAction calls were made less than one
\* minute ago is rejected (allowed=false), and a call that validates when N
\* or more were made and all of them more than 60 seconds ago is allowed
\* again.
C11_RateLimitWindow ==
  [][\A p \in Procs :
       (pc[p] = "idle" /\ pc'[p] # "idle") =>
         LET within == {q \in Recorders : now - recordedAt[q] < WindowMs}
             N == config.maxActionsPerMinute
         IN /\ Cardinality(within) >= N =>
                 /\ ~validation'[p].allowed
                 /\ validation'[p].reason = "Rate limit exceeded"
            /\ (/\ Cardinality(Recorders) >= N
                /\ \A q \in Recorders : now - recordedAt[q] > WindowMs) =>
                 validation'[p].allowed]_vars

\* under a ceiling of one action per minute the first call recorded its
\* action at time 0 and the second call was allowed more than 60 seconds
\* later
C11_Witness ==
  /\ config.maxActionsPerMinute = 1
  /\ recordedAt[1] = 0
  /\ validation[2].allowed
  /\ recordedAt[2] - recordedAt[1] > WindowMs

(***************************************************************************)
(* Properties of the audit log under concurrent calls (SpecMulti).         *)
(***************************************************************************)
\* C12: within one service lifetime, with executePlan calls in flight
\* concurrently, the log only grows at its end (entries are in append
\* order) and each entry's prevHash is the hash of the entry written
\* immediately before it, absent only for the first.
C12_AuditChainLinear ==
  /\ [](\A i \in 1..Len(auditLog) :
          auditLog[i].prevHash =
            IF i = 1 THEN <<>> ELSE <<auditLog[i - 1].hash>>)
  /\ [][\/ auditLog' = auditLog
        \/ /\ Len(auditLog') = Len(auditLog) + 1
           /\ SubSeq(auditLog', 1, Len(auditLog)) = auditLog
           /\ lastAuditHash' = <<auditLog'[Len(auditLog')].hash>>]_vars

\* two calls were in flight at the same time (the second was dispatched
\* before the first reported) and both have written their entry, with
\* different hashes
C12_Witness ==
  /\ Len(auditLog) = 2
  /\ Len(logged[1]) = 1
  /\ Len(logged[2]) = 1
  /\ auditLog[1].hash # auditLog[2].hash
  /\ IsDispatched(1, 1)
  /\ IsDispatched(2, 1)
  /\ DispatchPos(2, 1) < ReportPos(1, 1)
  /\ DispatchPos(1, 1) < ReportPos(2, 1)

\* C13: an entry's hash is a function of all its other fields (timestamp,
\* action, risk, userInput, plan, approved, executed, error, prevHash), so
\* that changing any of them changes the recomputed hash: two entries with
\* the same hash agree on every field.
C13_HashCoversEveryField ==
  \A i, j \in 1..Len(auditLog) :
    auditLog[i].hash = auditLog[j].hash => auditLog[i] = auditLog[j]

\* the plan of the call passed validation and consent
PassedGate(p) == validation[p].allowed /\ consent[p] # "denied"

\* every step of the call's plan was executed and succeeded
EveryStepSucceeded(p) ==
  /\ Len(results[p]) = Len(plan[p].steps)
  /\ \A i \in 1..Len(plan[p].steps) : results[p][i] = "ok"

\* C14: with audit logging enabled, a call of executePlan that has returned
\* has appended exactly one audit entry (and none before it ends), whatever
\* the outcome; the entry has approved=true iff the plan passed validation
\* and consent, and executed=true iff every step succeeded.
C14_OneAuditEntryPerCall ==
  \A p \in Procs :
    config.enableAuditLog =>
      /\ pc[p] # "done" => logged[p] = <<>>
      /\ pc[p] = "done" =>
           /\ Len(logged[p]) = 1
           /\ auditLog[logged[p][1]].userInput = userInput[p]
           /\ auditLog[logged[p][1]].approved = PassedGate(p)
           /\ auditLog[logged[p][1]].executed =
                (PassedGate(p) /\ EveryStepSucceeded(p))

\* two calls with the low-risk plan of one SystemSetting step: the first
\* succeeded and wrote exactly one entry with approved=true, executed=true,
\* the second failed in its step and wrote one with executed=false
C14_Witness ==
  /\ pc[1] = "done"
  /\ pc[2] = "done"
  /\ plan[1].risk = "low"
  /\ Len(plan[1].steps) = 1
  /\ plan[1].steps[1].op = "SystemSetting"
  /\ results[1] = <<"ok">>
  /\ results[2] = <<"fail">>
  /\ Len(logged[1]) = 1
  /\ auditLog[logged[1][1]].approved
  /\ auditLog[logged[1][1]].executed
  /\ Len(logged[2]) = 1
  /\ auditLog[logged[2][1]].approved
  /\ ~auditLog[logged[2][1]].executed

(***************************************************************************)
(* Properties of the consent gate (Spec).                                  *)
(***************************************************************************)
\* C15: consent fails closed.  When approval is required and the call was
\* made without a window, or the dialog it showed threw, the consent is
\* denied, the call has ended with "User denied consent" and no step of
\* the plan was dispatched.
C15_ConsentFailsClosed ==
  \A p \in Procs :
    (/\ pc[p] \notin {"off", "idle"}
     /\ validation[p].allowed
     /\ validation[p].requiresApproval
     /\ (~window[p] \/ response[p] = "error")) =>
      /\ consent[p] = "denied"
      /\ pc[p] = "done"
      /\ Dispatched(p) = {}
      /\ ~EnteredExecutor(p)
      /\ result[p] = TaskResult(FALSE, "User denied consent", 0)

\* the approval dialog of a plan that needs approval threw
C15_Witness ==
  /\ validation[1].allowed
  /\ validation[1].requiresApproval
  /\ window[1]
  /\ prompt[1] \in {"approval", "pin"}
  /\ response[1] = "error"
  /\ consent[1] = "denied"
  /\ Len(plan[1].steps) > 0

\* C16: in every configuration, a plan whose validation yields
\* requiresPin=true is treated as approved, recorded and dispatched only
\* after the PIN prompt was shown and answered with approval.
C16_PinBeforeExecution ==
  \A p \in Procs :
    (/\ validation[p].allowed
     /\ validation[p].requiresPin
     /\ (EnteredExecutor(p) \/ Dispatched(p) # {})) =>
      /\ prompt[p] = "pin"
      /\ response[p] = "approve"

\* C17: when the kill switch is active while a call's waves are executing,
\* the scheduler starts no further wave: no step of that call is dispatched
\* from then on (the steps in flight may still report).
C17_KillSwitchStopsFurtherWaves ==
  [][\A p \in Procs :
       (killSwitchActive /\ pc[p] = "exec") => Dispatched(p)' = Dispatched(p)]_vars

\* C18: the kill switch is checked again after consent: when it is active at
\* the moment the consent prompt of a call is answered, no step of that call
\* is dispatched, whatever the answer.
C18_KillSwitchCheckedAfterConsent ==
  [][\A p \in Procs :
       (killSwitchActive /\ pc[p] = "consent") => Dispatched(p)' = {}]_vars

UnknownOps(pl) ==
  {i \in 1..Len(pl.steps) : pl.steps[i].op \notin Operations}

\* C19: a plan with a step whose op is not one of the nine operations is
\* rejected by validateTaskPlan, and a call of executePlan with it ends with
\* none of its steps dispatched, those of known kinds included: it never
\* reaches the executor and returns success=false, executedSteps=0.
C19_UnknownOpRejected ==
  \A p \in Procs :
    (pc[p] # "idle" /\ UnknownOps(plan[p]) # {}) =>
      /\ ~validation[p].allowed
      /\ validation[p].reason # ""
      /\ pc[p] = "done"
      /\ Dispatched(p) = {}
      /\ ~EnteredExecutor(p)
      /\ result[p] = TaskResult(FALSE, validation[p].reason, 0)

\* a call whose plan has a valid OpenApp step before a step of unknown kind
\* has ended, rejected for the unknown operation, with nothing dispatched
C19_Witness ==
  /\ pc[1] = "done"
  /\ plan[1].steps[1].op \in Operations
  /\ UnknownOps(plan[1]) = {2}
  /\ validation[1] = Rejected("Unknown operation")
  /\ Dispatched(1) = {}

\* the plan is structurally malformed: no task, no step list, or a step
\* list that is empty
Malformed(pl) == pl.task = "" \/ ~pl.hasSteps \/ Len(pl.steps) = 0

\* C20: validateTaskPlan answers allowed=false for every structurally
\* malformed plan: one without a task, without a step list, or with an
\* empty step list.
C20_MalformedPlanRejected ==
  \A p \in Procs :
    (pc[p] = "answered" /\ Malformed(plan[p])) => ~validation[p].allowed

HasDangerousType(pl) ==
  \E i \in 1..Len(pl.steps) :
    pl.steps[i].op = "Type" /\ MatchesDangerousPattern(pl.steps[i].text)

\* C21: validateTaskPlan answers allowed=false for every plan when the user
\* input matches a dangerous command pattern or the text of one of the
\* plan's Type steps does.
C21_DangerousPatternRejected ==
  \A p \in Procs :
    (/\ pc[p] = "answered"
     /\ (MatchesDangerousPattern(userInput[p]) \/ HasDangerousType(plan[p]))) =>
      ~validation[p].allowed

\* C22: executePlan never raises.  For every input, a null plan and a plan
\* without a task included, and also when the write of the audit record
\* fails, a call that has ended returned a result, and a result that is not
\* a success carries an error text.
C22_ExecutePlanNeverRaises ==
  \A p \in Procs :
    pc[p] = "done" =>
      /\ ~raised[p]
      /\ (~result[p].success => result[p].error # "")

\* what the promise of step i of call p settled to, "none" before it has
SettledAs(p, i) ==
  IF HasSettled(p, i)
    THEN (CHOOSE e \in {settled[k] : k \in 1..Len(settled)} :
            e[1] = p /\ e[2] = i)[3]
  ELSE "none"

\* C23: the results array of executeWithAgents is index-aligned with the
\* steps: at every moment slot i holds the outcome of step i, whatever the
\* order in which the steps of a wave complete.
C23_ResultsIndexAligned ==
  \A p \in Procs :
    pc[p] \in {"exec", "done"} =>
      /\ Len(results[p]) = Len(plan[p].steps)
      /\ \A i \in 1..Len(plan[p].steps) : results[p][i] = SettledAs(p, i)

\* two steps of one wave completed in the reverse of their order with
\* different outcomes
C23_Witness ==
  /\ pc[1] = "done"
  /\ Len(settled) >= 2
  /\ settled[1] = <<1, 2, "fail">>
  /\ settled[2] = <<1, 1, "ok">>
  /\ results[1][1] = "ok"
  /\ results[1][2] = "fail"

\* the wave (from 1) that holds step i of call p, 0 when none does
WaveOf(p, i) ==
  LET batches == Batches(plan[p].steps)
      holding == {k \in 1..Len(batches) : i \in BatchSet(batches[k])}
  IN IF holding = {} THEN 0 ELSE Min(holding)

\* C24: wave barrier.  When a step of a wave has been dispatched, every
\* step of every earlier wave had reported its outcome, success or failure,
\* before that dispatch, whatever the completion order within the wave.
C24_WaveBarrier ==
  \A p \in Procs : \A i, j \in 1..Len(plan[p].steps) :
    (/\ IsDispatched(p, j)
     /\ WaveOf(p, i) > 0
     /\ WaveOf(p, i) < WaveOf(p, j)) =>
      /\ IsReported(p, i)
      /\ results[p][i] # "none"
      /\ ReportPos(p, i) < DispatchPos(p, j)

\* a first wave of two steps completed in reverse order, one of them failed,
\* and only then was the second wave dispatched
C24_Witness ==
  /\ pc[1] \in {"exec", "done"}
  /\ Len(plan[1].steps) = 3
  /\ WaveOf(1, 1) = 1
  /\ WaveOf(1, 2) = 1
  /\ WaveOf(1, 3) = 2
  /\ results[1][1] = "fail"
  /\ ReportPos(1, 2) < ReportPos(1, 1)
  /\ IsDispatched(1, 3)
  /\ ReportPos(1, 1) < DispatchPos(1, 3)

\* the tasks whose dependencies can be met: the least set that holds every
\* task all of whose dependencies it holds
RECURSIVE SatisfiableFrom(_, _)
SatisfiableFrom(tasks, S) ==
  LET T == S \cup {k \in 1..Len(tasks) : tasks[k].dependencies \subseteq S}
  IN IF T = S THEN S ELSE SatisfiableFrom(tasks, T)

Satisfiable(tasks) == SatisfiableFrom(tasks, {})

\* the tasks executeWithAgents has dispatched so far
TasksDispatched ==
  UNION {BatchSet(taskBatches[k]) : k \in 1..taskWave}

\* C25: for any task list, those with self-, mutual or otherwise
\* unsatisfiable dependencies included, batching terminates: the loop of
\* groupIntoBatches makes at most one wave per task, each wave non-empty
\* and no task in two waves, and executeWithAgents never dispatches a task
\* whose dependencies cannot be met.
C25_BatchingTerminates ==
  taskPc \in {"running", "returned"} =>
    /\ Len(taskBatches) <= Len(taskList)
    /\ \A k \in 1..Len(taskBatches) : Len(taskBatches[k]) > 0
    /\ \A k, l \in 1..Len(taskBatches) :
         k # l => BatchSet(taskBatches[k]) \cap BatchSet(taskBatches[l]) = {}
    /\ TasksDispatched \subseteq Satisfiable(taskList)
    /\ taskWave <= Len(taskBatches)

\* the call returned for three tasks of which the first is ready, the
\* second depends on the third and the third on itself: only the first was
\* dispatched
C25_Witness ==
  /\ taskPc = "returned"
  /\ Len(taskList) = 3
  /\ taskList[1].dependencies = {}
  /\ taskList[2].dependencies = {3}
  /\ taskList[3].dependencies = {3}
  /\ TasksDispatched = {1}

\* C26: getAuditLogs(limit) returns, for every limit >= 0 and a log of n
\* entries, the min(limit, n) entries appended last, the most recent first.
C26_AuditReadMostRecentFirst ==
  [][auditReply' # auditReply =>
       LET n == Len(auditLog)
           limit == auditReply'.limit
           reply == auditReply'.entries
       IN /\ Len(reply) = (IF limit < n THEN limit ELSE n)
          /\ \A k \in 1..Len(reply) : reply[k] = auditLog[n + 1 - k]]_vars

\* C29: only the first entry of the log file lacks a previous hash: every
\* later entry, one appended by a service constructed anew on a file that
\* is not empty included, has the hash of the entry before it as prevHash.
C29_ChainSurvivesRestart ==
  \A k \in 1..Len(auditLog) :
    auditLog[k].prevHash =
      (IF k = 1 THEN <<>> ELSE <<auditLog[k - 1].hash>>)

\* C27: under every interleaving of executePlan calls in flight, calls
\* suspended at the consent prompt included, the number of calls that reach
\* execution within one minute never exceeds maxActionsPerMinute.
C27_RateLimitAtomic ==
  \A q \in Recorders :
    Cardinality({p \in Recorders :
                   /\ recordedAt[q] - WindowMs < recordedAt[p]
                   /\ recordedAt[p] <= recordedAt[q]})
      <= config.maxActionsPerMinute

\* number of times the step executor was invoked for step i of call p
DispatchCount(p, i) ==
  Cardinality({k \in 1..Len(events) : events[k] = <<"dispatch", p, i>>})

\* C28: within one executePlan call the step executor is invoked at most
\* once for each step, a failed step included (no retry), and when the call
\* has ended for a plan all of whose steps passed the executor's validation
\* it was invoked exactly once for each step.
C28_EachStepInvokedOnce ==
  \A p \in Procs : \A i \in 1..Len(plan[p].steps) :
    /\ DispatchCount(p, i) <= 1
    /\ (pc[p] = "done" /\ EnteredExecutor(p) /\ InvalidSteps(p) = {}) =>
         DispatchCount(p, i) = 1

\* a call of three steps in two waves has ended with its first step failed:
\* every step was invoked once
C28_Witness ==
  /\ pc[1] = "done"
  /\ Len(plan[1].steps) = 3
  /\ WaveOf(1, 3) = 2
  /\ results[1][1] = "fail"
  /\ \A i \in 1..3 : DispatchCount(1, i) = 1

\* the predecessor of step i as a dependency list
Predecessor(i) == IF i > 1 THEN {i - 1} ELSE {}

\* the dependency list the dependency rule gives step i
RuleDependencies(steps, i) ==
  CASE steps[i].op \in {"Wait", "SystemSetting"} -> {}
    [] steps[i].op = "OpenApp" ->
         IF i > 1 /\ steps[i - 1].op = "Wait" THEN {i - 1} ELSE {}
    [] OTHER -> Predecessor(i)

\* C30: createExecutionPlan assigns dependencies as the dependency rule
\* states: a Wait or SystemSetting step gets no predecessor and is
\* parallel-safe; an OpenApp step depends on the step before it exactly when
\* that step is a Wait; every other step depends on the step before it.
C30_DependencyRule ==
  \A p \in Procs :
    EnteredExecutor(p) =>
      LET steps == plan[p].steps
          tasks == createExecutionPlan(steps)
      IN \A i \in 1..Len(steps) :
           /\ tasks[i].dependencies = RuleDependencies(steps, i)
           /\ steps[i].op \in {"Wait", "SystemSetting"} =>
                tasks[i].canRunInParallel

\* C31: in every plan, an OpenApp step that comes right after a Wait step
\* is not dispatched until the outcome of that Wait has been recorded.
C31_OpenAppWaitsForWait ==
  \A p \in Procs : \A i \in 2..Len(plan[p].steps) :
    (/\ plan[p].steps[i].op = "OpenApp"
     /\ plan[p].steps[i - 1].op = "Wait"
     /\ IsDispatched(p, i)) =>
      /\ IsReported(p, i - 1)
      /\ results[p][i - 1] # "none"
      /\ ReportPos(p, i - 1) < DispatchPos(p, i)

\* a SystemSetting, a Wait and an OpenApp: the first two shared a wave, the
\* Wait reported, and the OpenApp was dispatched after it
C31_Witness ==
  /\ Len(plan[1].steps) = 3
  /\ plan[1].steps[1].op = "SystemSetting"
  /\ plan[1].steps[2].op = "Wait"
  /\ plan[1].steps[3].op = "OpenApp"
  /\ IsDispatched(1, 3)
  /\ ReportPos(1, 2) < DispatchPos(1, 3)

\* C32: the risk that checkTaskSafety reports for the plan of a call that
\* reached the executor is the maximum, under low < medium < high, of the
\* plan's declared risk and the risk of each of its steps.
C32_RiskIsMaximum ==
  \A p \in Procs :
    EnteredExecutor(p) =>
      RiskRank(checkTaskSafety(plan[p]).risk) = AggregatedRank(plan[p])

\* the calls whose count of recordAction calls changes in the step
NewRecorders == {p \in Procs : recorded'[p] # recorded[p]}

\* C33: the limiter's window grows only on accepted actions.  A call makes
\* at most one recordAction call; it has made it when it passed validation
\* and consent, before any of its steps is dispatched, and has made none
\* when it ended rejected or denied.  A step that records appends one entry
\* for a call that passed both and had dispatched nothing; any other step
\* leaves the window as it was or without its expired entries.
C33_WindowGrowsOnAcceptedOnly ==
  /\ [](\A p \in Procs :
          /\ recorded[p] <= 1
          /\ Dispatched(p) # {} => recorded[p] = 1
          /\ (pc[p] \in {"exec", "done"} /\ PassedGate(p)) => recorded[p] = 1
          /\ (pc[p] = "done" /\ ~PassedGate(p)) => recorded[p] = 0)
  /\ [][IF NewRecorders = {}
          THEN actionHistory' \in
                 {actionHistory, RecentHistory(actionHistory, now)}
        ELSE \E p \in Procs :
               /\ NewRecorders = {p}
               /\ recorded'[p] = recorded[p] + 1
               /\ PassedGate(p)'
               /\ Dispatched(p) = {}
               /\ \E h \in {actionHistory, RecentHistory(actionHistory, now)} :
                    actionHistory' =
                      Append(h, [timestamp |-> now, action |-> plan[p].task])]_vars

\* an approved call was recorded once while an older entry of the window
\* had expired
C33_Witness ==
  /\ pc[1] = "done"
  /\ response[1] = "approve"
  /\ recorded[1] = 1
  /\ now > WindowMs
  /\ actionHistory = <<[timestamp |-> now, action |-> "task"]>>

\* C34: requestConsent answers approved=true without a prompt only for a
\* plan that validateTaskPlan allows and for which approval is not required;
\* for a plan that validation rejects at the time of the request it never
\* answers approved=true.
C34_AutoApproveOnlyAllowed ==
  \A p \in Procs :
    (pc[p] = "consulted" /\ consent[p] = "approved") =>
      /\ validation[p].allowed
      /\ prompt[p] = "none" => ~validation[p].requiresApproval

\* the hash the chain pointer must hold for the log file as it is: the hash
\* of its last line, or none for an empty file
LastWrittenHash(log) ==
  IF log = <<>> THEN <<>> ELSE <<log[Len(log)].hash>>

\* C35: when writing an audit record fails, lastAuditHash is left unchanged
\* (a step that adds no line to the log does not move the pointer), so every
\* entry written to the log carries as prevHash the hash of the entry
\* written before it, the last one present in the log at that time.
C35_FailedWriteKeepsChain ==
  /\ [](\A i \in 1..Len(auditLog) :
          auditLog[i].prevHash = LastWrittenHash(SubSeq(auditLog, 1, i - 1)))
  /\ [][auditLog' = auditLog => lastAuditHash' = lastAuditHash]_vars

\* the chain alone, as it stands when every write succeeds
C35_ChainWhenWritesSucceed ==
  ~storeFaulty =>
    /\ lastAuditHash = LastWrittenHash(auditLog)
    /\ \A i \in 1..Len(auditLog) :
         auditLog[i].prevHash = LastWrittenHash(SubSeq(auditLog, 1, i - 1))

\* the waves laid end to end
RECURSIVE Flatten(_)
Flatten(batches) ==
  IF batches = <<>> THEN <<>> ELSE Head(batches) \o Flatten(Tail(batches))

\* C36: for every step list the waves built from createExecutionPlan's
\* output are non-empty contiguous ranges of step indices in increasing
\* order (laid end to end they read 1, 2, ..., n, so a later step is never in
\* an earlier wave and every step is in exactly one wave); hence the exit
\* for cyclic dependencies is never taken, and a call that ran the waves
\* ends with an outcome for every step.
C36_WavesPartitionInOrder ==
  \A p \in Procs :
    pc[p] # "off" =>
      LET steps == plan[p].steps
          batches == Batches(steps)
      IN /\ Flatten(batches) = [i \in 1..Len(steps) |-> i]
         /\ \A k \in 1..Len(batches) : batches[k] # <<>>
         /\ \A i, j \in 1..Len(steps) : i < j => WaveOf(p, i) <= WaveOf(p, j)
         /\ (pc[p] = "done" /\ EnteredExecutor(p) /\ InvalidSteps(p) = {}) =>
              /\ Len(results[p]) = Len(steps)
              /\ \A i \in 1..Len(steps) : results[p][i] \in {"ok", "fail"}

\* a call that ran a wave of two steps and then a wave of one, and holds an
\* outcome for each of the three
C36_Witness ==
  /\ pc[1] = "done"
  /\ EnteredExecutor(1)
  /\ Batches(plan[1].steps) = <<(<<1, 2>>), (<<3>>)>>
  /\ plan[1].steps[2].op = "Message"
  /\ \A i \in 1..3 : results[1][i] \in {"ok", "fail"}

\* the call of p has begun; it awaits a consent prompt or a wave of steps;
\* it has returned a result
Begun(p) == pc[p] \notin {"off", "idle"}

Pending(p) == pc[p] \in {"consent", "exec"}

Returned(p) == pc[p] = "done" /\ ~raised[p]

\* C37: when every dispatched step eventually reports and every consent
\* prompt is eventually answered, then whenever a call of executePlan is
\* pending, eventually every call that has begun has returned a result; and
\* when a call has returned, its audit entry is in the log (audit logging
\* enabled).
C37_EveryCallReturns ==
  /\ (\E p \in Procs : Pending(p)) ~> (\A p \in Procs : Begun(p) => Returned(p))
  /\ [](\A p \in Procs :
          (pc[p] = "done" /\ config.enableAuditLog) =>
            /\ ~raised[p]
            /\ logged[p] # <<>>
            /\ \A k \in 1..Len(logged[p]) :
                 /\ logged[p][k] \in 1..Len(auditLog)
                 /\ auditLog[logged[p][k]].userInput = userInput[p])

\* a call that went through a consent prompt and two waves of the executor
\* and returned, with its entry in the log
C37_Witness ==
  /\ Returned(1)
  /\ response[1] = "approve"
  /\ Len(plan[1].steps) = 2
  /\ Len(Batches(plan[1].steps)) = 2
  /\ \A i \in 1..2 : IsReported(1, i)
  /\ logged[1] = <<1>>
  /\ Len(auditLog) = 1

\* C38: checkTaskSafety returns safe=true for every plan: whenever the risk
\* it reports is high, requiresConfirmation is true as well, so safe=false
\* does not occur, and no call that passed validation and consent is ended
\* by the executor's safety check.
C38_SafetyCheckNeverBlocks ==
  \A p \in Procs :
    pc[p] # "off" =>
      /\ checkTaskSafety(plan[p]).safe
      /\ checkTaskSafety(plan[p]).risk = "high" =>
           checkTaskSafety(plan[p]).requiresConfirmation
      /\ (pc[p] = "done" /\ EnteredExecutor(p)) =>
           execResult[p].error # "Task blocked by safety system"

\* a plan declared low whose second step opens the registry editor entered
\* the executor: the check reports high risk, asks for confirmation and is
\* safe, and both steps were dispatched
C38_Witness ==
  /\ pc[1] = "done"
  /\ EnteredExecutor(1)
  /\ plan[1].risk = "low"
  /\ Len(plan[1].steps) = 2
  /\ plan[1].steps[2] = OpenAppStep("regedit")
  /\ checkTaskSafety(plan[1]) =
       [safe |-> TRUE, risk |-> "high", requiresConfirmation |-> TRUE]
  /\ Dispatched(1) = {1, 2}

=============================================================================
